---- MODULE Spec2Model ----
(***************************************************************************)
(* Model of the volvelle checksum worksheet (volvelle-wasm):               *)
(*   fe.rs                 GF(32) arithmetic, alphabet, polymod            *)
(*   checksum_worksheet.rs Worksheet::new, handle_input_change,            *)
(*                         cell_below / cell_above, update_sheet           *)
(* Characters are one-character strings; ids and the hrp are strings; the  *)
(* val argument of handle_input_change is its sequence of UTF-8 bytes.     *)
(* Option<T> is modelled with the value None for Option::None.             *)
(***************************************************************************)
EXTENDS Integers, Sequences, FiniteSets, TLC

(***************************************************************************)
(* Bounds of the model.                                                    *)
(***************************************************************************)
\* largest data length (size - h - L - 1) a constructed worksheet is given
MaxDataLen == 2
\* number of handle_input_change calls made on one worksheet
MaxEdits == 2
\* number of actions of one call the model records; a call that pushes more
\* keeps running with the recorded vector left as it is
MaxRet == 60

None == "None"

(***************************************************************************)
(* fe.rs                                                                   *)
(***************************************************************************)
\* (BECH32_ALPHABET_Swapped: the first two characters exchanged)
BECH32_ALPHABET_Swapped == "PQZRY9X8GF2TVDW0S3JN54KHCE6MUA7L"
BECH32_ALPHABET == "QPZRY9X8GF2TVDW0S3JN54KHCE6MUA7L"
CODEX32_POLYMOD == <<25, 27, 17, 8, 0, 25, 25, 25, 31, 27, 24, 16, 16>>
\* BECH32_POLYMOD with its last coefficient off by one
BECH32_POLYMOD_LastOff == <<29, 22, 20, 21, 29, 19>>
BECH32_POLYMOD == <<29, 22, 20, 21, 29, 18>>

\* bitwise exclusive or of two naturals (the ^ operator on u8)
RECURSIVE BitXor(_, _)
BitXor(a, b) ==
    IF a = 0 THEN b
    ELSE IF b = 0 THEN a
    ELSE (((a % 2) + (b % 2)) % 2) + 2 * BitXor(a \div 2, b \div 2)

\* impl ops::Add<Fe> for Fe
FeAdd(a, b) == BitXor(a, b)

\* the while loop of impl ops::Mul<&Fe> for Fe; self, fe2 and ret are u8
RECURSIVE MulLoop(_, _, _)
MulLoop(self, fe2, ret) ==
    IF self = 0 THEN ret
    ELSE LET ret1 == IF self % 2 = 1 THEN BitXor(ret, fe2) ELSE ret
             sh   == (fe2 * 2) % 256
             red  == IF (sh \div 32) % 2 = 1 THEN BitXor(sh, 32 + 8 + 1) ELSE sh
         IN  CHOOSE out \in {MulLoop(self \div 2, st[1], st[2]) :
                              st \in {<<red, ret1>>}} : TRUE

\* impl ops::Mul<&Fe> for Fe
\* (FeMul_RetOne: ret starts at 1)
FeMul_RetOne(a, b) == MulLoop(a, b, 1)
FeMul(a, b) == MulLoop(a, b, 0)

\* tables of the two field operations, evaluated once
FeAddTable == [a \in 0..31 |-> [b \in 0..31 |-> FeAdd(a, b)]]
FeMulTable == [a \in 0..31 |-> [b \in 0..31 |-> FeMul(a, b)]]

\* impl From<Fe> for char
CharFromFe(fe) == SubSeq(BECH32_ALPHABET, fe + 1, fe + 1)

\* the match of impl TryFrom<char> for Fe
FeOfChar ==
    ("Q" :> 0)  @@ ("P" :> 1)  @@ ("Z" :> 2)  @@ ("R" :> 3)  @@
    ("Y" :> 4)  @@ ("9" :> 5)  @@ ("X" :> 6)  @@ ("8" :> 7)  @@
    ("G" :> 8)  @@ ("F" :> 9)  @@ ("2" :> 10) @@ ("T" :> 11) @@
    ("V" :> 12) @@ ("D" :> 13) @@ ("W" :> 14) @@ ("0" :> 15) @@
    ("S" :> 16) @@ ("3" :> 17) @@ ("J" :> 18) @@ ("N" :> 19) @@
    ("5" :> 20) @@ ("4" :> 21) @@ ("K" :> 22) @@ ("H" :> 23) @@
    ("C" :> 24) @@ ("E" :> 25) @@ ("6" :> 26) @@ ("M" :> 27) @@
    ("U" :> 28) @@ ("A" :> 29) @@ ("7" :> 30) @@ ("L" :> 31)

\* Fe::try_from(ch): Ok(fe) or Err
FeTryFrom(ch) ==
    IF ch \in DOMAIN FeOfChar THEN [tag |-> "Ok", fe |-> FeOfChar[ch]] ELSE [tag |-> "Err"]

\* the printable ASCII characters: codes 32..95 and codes 97..126
AsciiLow == " !\"#$%&'()*+,-./0123456789:;<=>?@ABCDEFGHIJKLMNOPQRSTUVWXYZ[\\]^_"
AsciiHigh == "abcdefghijklmnopqrstuvwxyz{|}~"
IsAscii(ch) ==
    \/ \E i \in 1..Len(AsciiLow) : SubSeq(AsciiLow, i, i) = ch
    \/ \E i \in 1..Len(AsciiHigh) : SubSeq(AsciiHigh, i, i) = ch
\* the byte value of an ASCII character
Ord(ch) ==
    IF \E i \in 1..Len(AsciiLow) : SubSeq(AsciiLow, i, i) = ch
    THEN 31 + (CHOOSE i \in 1..Len(AsciiLow) : SubSeq(AsciiLow, i, i) = ch)
    ELSE 96 + (CHOOSE i \in 1..Len(AsciiHigh) : SubSeq(AsciiHigh, i, i) = ch)
Chr(n) == IF n < 96 THEN SubSeq(AsciiLow, n - 31, n - 31) ELSE SubSeq(AsciiHigh, n - 96, n - 96)

\* char::to_ascii_uppercase / u8::to_ascii_lowercase
ToAsciiUppercase(ch) ==
    IF IsAscii(ch) /\ Ord(ch) >= 97 /\ Ord(ch) <= 122 THEN Chr(Ord(ch) - 32) ELSE ch
ToAsciiLowercase(ch) ==
    IF IsAscii(ch) /\ Ord(ch) >= 65 /\ Ord(ch) <= 90 THEN Chr(Ord(ch) + 32) ELSE ch

\* str::as_bytes of an ASCII string: a &str is a sequence of UTF-8 bytes,
\* and str::len counts bytes
Utf8(s) == [i \in 1..Len(s) |-> Ord(SubSeq(s, i, i))]
\* the two bytes of U+00E9, a character outside ASCII
EAcute == <<195, 169>>
RECURSIVE Concat(_)
Concat(seq) == IF seq = <<>> THEN "" ELSE Head(seq) \o Concat(Tail(seq))
\* String::to_ascii_uppercase
StrToAsciiUppercase(s) == Concat([i \in 1..Len(s) |-> ToAsciiUppercase(SubSeq(s, i, i))])

\* one round of the for loop of Poly::polymod: shift ret, add ch, reduce
\* (PolymodRound_NoReduce: c13 * modulus is not added)
PolymodRound_NoReduce(ret, ch, modulus) ==
    Tail(ret) \o <<ch>>
PolymodRound(ret, ch, modulus) ==
    LET n   == Len(modulus)
        c13 == ret[1]
        sh  == Tail(ret) \o <<ch>>
    IN  SubSeq([i \in 1..n |-> FeAddTable[sh[i]][FeMulTable[c13][modulus[i]]]], 1, n)

\* the for loop of Poly::polymod from the k-th coefficient of p on; the
\* CHOOSE binds the outcome of the round before the next one uses it
RECURSIVE PolymodFrom(_, _, _, _)
PolymodFrom(ret, p, k, modulus) ==
    IF k > Len(p) THEN ret
    ELSE CHOOSE out \in {PolymodFrom(r, p, k + 1, modulus) :
                         r \in {PolymodRound(ret, p[k], modulus)}} : TRUE

\* Poly::polymod
polymod(p, modulus) == PolymodFrom([i \in 1..Len(modulus) |-> 0], p, 1, modulus)

\* Poly::mul_by_x / Poly::mul_by_x_then_add
\* (mul_by_x_OneShort: one zero fewer is appended)
mul_by_x_OneShort(p, n) == p \o [i \in 1..(n - 1) |-> 0]
mul_by_x(p, n) == p \o [i \in 1..n |-> 0]
mul_by_x_then_add(p, fe) == Append(p, fe)

\* Poly::hrp_residue
\* (hrp_residue_NoLower: the bytes are taken as they are)
hrp_residue_NoLower(s, modulus) ==
    LET hi == [i \in 1..Len(s) |-> Ord(SubSeq(s, i, i)) \div 32]
        lo == [i \in 1..Len(s) |-> Ord(SubSeq(s, i, i)) % 32]
        poly_1 == <<1>> \o hi \o <<0>> \o lo \o [i \in 1..Len(modulus) |-> 0]
    IN  polymod(poly_1, modulus)
hrp_residue(s, modulus) ==
    LET hi == [i \in 1..Len(s) |-> Ord(ToAsciiLowercase(SubSeq(s, i, i))) \div 32]
        lo == [i \in 1..Len(s) |-> Ord(ToAsciiLowercase(SubSeq(s, i, i))) % 32]
        poly_1 == <<1>> \o hi \o <<0>> \o lo \o [i \in 1..Len(modulus) |-> 0]
    IN  polymod(poly_1, modulus)

(***************************************************************************)
(* checksum_worksheet.rs: the worksheet and its construction.              *)
(* Row and cell indices are zero-based as in the source; the sequences     *)
(* holding them are one-based.                                             *)
(***************************************************************************)
\* Checksum::len
ChecksumLen(checksum) == IF checksum = "Codex32" THEN 13 ELSE 6
\* the generator selected by the matches on self.checksum
Modulus(checksum) == IF checksum = "Codex32" THEN CODEX32_POLYMOD ELSE BECH32_POLYMOD

\* struct Cell, struct Row
Cell(ty, dom_id, val) == [ty |-> ty, dom_id |-> dom_id, val |-> val]
Row(start_idx, cells) == [start_idx |-> start_idx, cells |-> cells]

\* format!("inp_{}_{}", r, c) and format!("inp_{}_symb", r)
FmtId(r, c) == "inp_" \o ToString(r) \o "_" \o ToString(c)
FmtSymb(r) == "inp_" \o ToString(r) \o "_symb"

\* Worksheet::add_first_row; the returned offset is OffsetAfterFirstRow
add_first_row(w) ==
    LET h == Len(w.hrp)
        L == ChecksumLen(w.checksum)
        offset == h + 1
        hrpCells == [n \in 1..h |-> Cell("FixedHrp", FmtId(0, n - 1), SubSeq(w.hrp, n, n))]
        sep == Cell("FixedHrp", FmtId(0, h), "1")
        share == [k \in 1..L |->
                    Cell(IF offset + (k - 1) >= w.size - L
                         THEN "ShareDataChecksum" ELSE "ShareData",
                         FmtId(0, h + 1 + (k - 1)), None)]
    IN  [w EXCEPT !.rows = <<Row(0, hrpCells \o <<sep>> \o share)>>]
\* (OffsetAfterFirstRow_Late: one column further right)
OffsetAfterFirstRow_Late(w) == Len(w.hrp) + 2
OffsetAfterFirstRow(w) == Len(w.hrp) + 1

\* Worksheet::add_second_row
add_second_row(w, offset) ==
    LET L == ChecksumLen(w.checksum)
        hrp_poly == hrp_residue(w.hrp, Modulus(w.checksum))
        cells == <<Cell("Symbol", FmtSymb(1), "+")>> \o
                 [n \in 1..Len(hrp_poly) |->
                    Cell("FixedResidue", FmtId(1, n - 1), CharFromFe(hrp_poly[n]))]
    IN  [w EXCEPT !.rows = Append(w.rows, Row(offset - 1, cells))]

\* Worksheet::add_2nth_rows; the returned offset is offset + 2
add_2nth_rows(w, offset) ==
    LET L == ChecksumLen(w.checksum)
        ridx == Len(w.rows)
        sums == [k \in 1..L |->
                    Cell(IF offset + (k - 1) >= w.size - L THEN "SumChecksum" ELSE "Sum",
                         FmtId(ridx, 1 + (k - 1)), None)]
        shares == [k \in 1..2 |->
                    Cell(IF offset + L + (k - 1) >= w.size - L
                         THEN "ShareDataChecksum" ELSE "ShareData",
                         FmtId(ridx, 1 + (k - 1) + L), None)]
        sumRow == Row(offset - 1, <<Cell("Symbol", FmtSymb(ridx), "=")>> \o sums \o shares)
        offset2 == offset + 2
        ridx2 == ridx + 1
        residues == [k \in 1..L |-> Cell("Residue", FmtId(ridx2, 1 + (k - 1)), None)]
        resRow == Row(offset2 - 1, <<Cell("Symbol", FmtSymb(ridx2 + 1), "+")>> \o residues)
    IN  [w EXCEPT !.rows = w.rows \o <<sumRow, resRow>>]

\* Worksheet::add_final_row
add_final_row(w, offset) ==
    LET ridx == Len(w.rows)
        checksum_str == IF w.checksum = "Codex32" THEN "SECRETSHARE32" ELSE "QQQQQP"
        cells == <<Cell("Symbol", FmtSymb(ridx), "=")>> \o
                 [n \in 1..Len(checksum_str) |->
                    Cell("GlobalResidue", FmtId(ridx, n - 1), SubSeq(checksum_str, n, n))]
    IN  [w EXCEPT !.rows = Append(w.rows, Row(offset - 1, cells))]

\* the loop "for _ in 1..n_rows { offset = ret.add_2nth_rows(offset) }" of
\* Worksheet::new, followed by add_final_row
RECURSIVE AddPairs(_, _, _, _)
\* (AddPairs_OneMore: a loop over 1..=n_rows)
AddPairs_OneMore(w, offset, k, n_rows) ==
    IF k > n_rows THEN add_final_row(w, offset)
    ELSE AddPairs(add_2nth_rows(w, offset), offset + 2, k + 1, n_rows)
AddPairs(w, offset, k, n_rows) ==
    IF k >= n_rows THEN add_final_row(w, offset)
    ELSE AddPairs(add_2nth_rows(w, offset), offset + 2, k + 1, n_rows)

\* Worksheet::new: the set of outcomes a build of the program can produce.
\* "size - hrp.len() - checksum.len() - 1" is a usize subtraction: when it
\* goes below zero a build with overflow checks panics, and a build without
\* them wraps to 2^w - 1 (w the width of usize), written here as the record
\* [wrapped |-> TRUE, val |-> -1]; 2^w is even, so the wrapped value has the
\* parity of val.
Worksheet_new(hrp, create_mode, size, checksum) ==
    LET w0 == [hrp |-> StrToAsciiUppercase(hrp), create_mode |-> create_mode,
               size |-> size, rows |-> <<>>, checksum |-> checksum]
        h == Len(w0.hrp)
        L == ChecksumLen(checksum)
        diff == size - h - L - 1
        data_len == [wrapped |-> diff < 0, val |-> diff]
        n_rows == (diff \div 2) + 1
        w1 == add_first_row(w0)
        offset == OffsetAfterFirstRow(w0)
        w2 == add_second_row(w1, offset)
    IN  IF size < h + L
        THEN {[tag |-> "Err", err |-> [kind |-> "TooShort", minimum |-> h + L, actual |-> size]]}
        ELSE IF diff < 0
        THEN {[tag |-> "Panic"],
              [tag |-> "Err", err |-> [kind |-> "OddLength", data_len |-> data_len]]}
        ELSE IF diff % 2 = 1
        THEN {[tag |-> "Err", err |-> [kind |-> "OddLength", data_len |-> data_len]]}
        ELSE {[tag |-> "Ok", ws |-> AddPairs(w2, offset, 1, n_rows)]}

\* the worksheet held when construction did not return one
NoWorksheet == [hrp |-> "", create_mode |-> "Create", size |-> 0, rows |-> <<>>,
                checksum |-> "Bech32"]

(***************************************************************************)
(* checksum_worksheet.rs: cell ids, geometry, classification.              *)
(***************************************************************************)
\* str::split on a one-character separator
RECURSIVE SplitFrom(_, _, _, _, _)
SplitFrom(s, sep, i, cur, acc) ==
    IF i > Len(s) THEN Append(acc, cur)
    ELSE IF SubSeq(s, i, i) = sep THEN SplitFrom(s, sep, i + 1, "", Append(acc, cur))
    ELSE SplitFrom(s, sep, i + 1, cur \o SubSeq(s, i, i), acc)
Split(s, sep) == SplitFrom(s, sep, 1, "", <<>>)

Digits == "0123456789"
IsDigit(ch) == \E i \in 1..10 : SubSeq(Digits, i, i) = ch
DigitVal(ch) == (CHOOSE i \in 1..10 : SubSeq(Digits, i, i) = ch) - 1
RECURSIVE DigitsVal(_, _, _)
DigitsVal(s, i, acc) ==
    IF i > Len(s) THEN acc ELSE DigitsVal(s, i + 1, 10 * acc + DigitVal(SubSeq(s, i, i)))
\* usize::from_str: an optional '+' and at least one decimal digit
\* (ParseUsize_EmptyZero: the empty string parses as 0)
ParseUsize_EmptyZero(s) ==
    LET body == IF Len(s) > 0 /\ SubSeq(s, 1, 1) = "+" THEN SubSeq(s, 2, Len(s)) ELSE s
    IN  IF \A i \in 1..Len(body) : IsDigit(SubSeq(body, i, i))
        THEN [tag |-> "Ok", n |-> DigitsVal(body, 1, 0)]
        ELSE [tag |-> "Err"]
ParseUsize(s) ==
    LET body == IF Len(s) > 0 /\ SubSeq(s, 1, 1) = "+" THEN SubSeq(s, 2, Len(s)) ELSE s
    IN  IF Len(body) > 0 /\ \A i \in 1..Len(body) : IsDigit(SubSeq(body, i, i))
        THEN [tag |-> "Ok", n |-> DigitsVal(body, 1, 0)]
        ELSE [tag |-> "Err"]

UnknownCell(id, reason) ==
    [tag |-> "Err", err |-> [kind |-> "UnknownCell", id |-> id, reason |-> reason]]

\* cell_from_name (checksum_worksheet.rs): Ok((row, cell)) or Err(UnknownCell)
cell_from_name(s) ==
    IF Len(s) < 7 \/ SubSeq(s, 1, 4) # "inp_"
    THEN UnknownCell(s, "no inp_ prefix")
    ELSE LET iter == Split(SubSeq(s, 5, Len(s)), "_")
         IN  IF Len(iter) < 1 THEN UnknownCell(s, "no first number")
             ELSE IF ParseUsize(iter[1]).tag = "Err"
             THEN UnknownCell(s, "first number did not parse")
             ELSE IF Len(iter) < 2 THEN UnknownCell(s, "no second number")
             ELSE IF ParseUsize(iter[2]).tag = "Err"
             THEN UnknownCell(s, "second number did not parse")
             ELSE IF Len(iter) > 2 THEN UnknownCell(s, "more than 2 numbers")
             ELSE [tag |-> "Ok", row |-> ParseUsize(iter[1]).n, cell |-> ParseUsize(iter[2]).n]

\* the loop "for i in 0..3" of cell_from_name (lib.rs) from segment i on:
\* iter holds "inp" first, ret the numbers parsed so far
RECURSIVE SessionNumbers(_, _, _, _)
SessionNumbers(s, iter, i, ret) ==
    IF i > 3 THEN [tag |-> "Ok", ret |-> ret]
    ELSE IF Len(iter) < i + 1 THEN UnknownCell(s, "missing number")
    ELSE IF ParseUsize(iter[i + 1]).tag = "Err" THEN UnknownCell(s, "bad number")
    ELSE SessionNumbers(s, iter, i + 1, Append(ret, ParseUsize(iter[i + 1]).n))

\* cell_from_name (lib.rs): Ok([share, row, cell]) or Err(UnknownCell)
session_cell_from_name(s) ==
    LET iter == Split(s, "_")
        nums == SessionNumbers(s, iter, 1, <<>>)
    IN  IF iter[1] # "inp" THEN UnknownCell(s, "no inp_ prefix")
        ELSE IF nums.tag = "Err" THEN nums
        ELSE IF Len(iter) > 4 THEN UnknownCell(s, "extra numbers")
        ELSE nums

\* self.rows[ridx] and self.rows[ridx].cells[cidx]
RowAt(w, ridx) == w.rows[ridx + 1]
CellAt(w, ridx, cidx) == w.rows[ridx + 1].cells[cidx + 1]
NumRows(w) == Len(w.rows)
NumCells(w, ridx) == Len(w.rows[ridx + 1].cells)
\* whether self.rows[ridx].cells[cidx] is inside the vectors
InBounds(w, ridx, cidx) ==
    ridx >= 0 /\ ridx < NumRows(w) /\ cidx >= 0 /\ cidx < NumCells(w, ridx)

\* the assignment self.rows[ridx].cells[cidx].val = v
\* (SetVal_Retype: an assignment of a whole new cell)
SetVal_Retype(w, ridx, cidx, v) ==
    [w EXCEPT !.rows[ridx + 1].cells[cidx + 1] = Cell("ShareData", @.dom_id, v)]
SetVal(w, ridx, cidx, v) == [w EXCEPT !.rows[ridx + 1].cells[cidx + 1].val = v]

\* Option values and the outcome of an operation that can panic
NoneV == [tag |-> "None"]
PanicV == [tag |-> "Panic"]
SomeCell(r, c) == [tag |-> "Some", row |-> r, cell |-> c]
SomeFe(fe) == [tag |-> "Some", fe |-> fe]

\* Worksheet::cell_below: None, Some((row, cell)), or a panic when the index
\* into the next row's cells is out of range
cell_below(w, ridx, cidx) ==
    IF ridx >= NumRows(w) - 1 THEN NoneV
    ELSE LET offset_adj == RowAt(w, ridx + 1).start_idx - RowAt(w, ridx).start_idx
         IN  IF offset_adj < 0 THEN PanicV
             ELSE IF offset_adj > cidx THEN NoneV
             ELSE IF ~InBounds(w, ridx + 1, cidx - offset_adj) THEN PanicV
             ELSE IF CellAt(w, ridx + 1, cidx - offset_adj).ty = "Symbol" THEN NoneV
             ELSE SomeCell(ridx + 1, cidx - offset_adj)

\* Worksheet::cell_above
cell_above(w, ridx, cidx) ==
    IF ridx = 0 THEN NoneV
    ELSE LET offset_adj == RowAt(w, ridx).start_idx - RowAt(w, ridx - 1).start_idx
         IN  IF offset_adj < 0 THEN PanicV
             ELSE IF cidx + offset_adj >= NumCells(w, ridx - 1) THEN NoneV
             ELSE SomeCell(ridx - 1, cidx + offset_adj)

\* cell_pos, the classification local to update_sheet
\* (cell_pos_Strict: the checksum side of an even row starts one column later)
cell_pos_Strict(ridx, cidx, w) ==
    IF ridx % 2 = 1
    THEN IF RowAt(w, ridx).start_idx + cidx >= w.size - ChecksumLen(w.checksum)
         THEN "ResidueChecksum" ELSE "Residue"
    ELSE IF cidx = 1 \/ cidx = 2 THEN "LowerDiagonal"
    ELSE IF RowAt(w, ridx).start_idx + cidx > w.size - ChecksumLen(w.checksum)
         THEN "SumChecksum" ELSE "Sum"
cell_pos(ridx, cidx, w) ==
    IF ridx % 2 = 1
    THEN IF RowAt(w, ridx).start_idx + cidx >= w.size - ChecksumLen(w.checksum)
         THEN "ResidueChecksum" ELSE "Residue"
    ELSE IF cidx = 1 \/ cidx = 2 THEN "LowerDiagonal"
    ELSE IF RowAt(w, ridx).start_idx + cidx >= w.size - ChecksumLen(w.checksum)
         THEN "SumChecksum" ELSE "Sum"

\* self.rows[r].cells[c].val.map(|ch| fe::Fe::try_from(ch).unwrap()):
\* None, Some(fe), or a panic when the character is not in the alphabet
ValFe(w, ridx, cidx) ==
    LET v == CellAt(w, ridx, cidx).val
    IN  IF v = None THEN NoneV
        ELSE IF FeTryFrom(v).tag = "Err" THEN PanicV
        ELSE SomeFe(FeTryFrom(v).fe)

(***************************************************************************)
(* checksum_worksheet.rs: handle_input_change and update_sheet.            *)
(***************************************************************************)
\* dom_action::Action
Action(ty, id, value) == [ty |-> ty, id |-> id, value |-> value]
FlashError(id) == [tag |-> "Ok", actions |-> <<Action("FlashError", id, None)>>]

\* the state of the loop of update_sheet: the worksheet, the queue, the
\* actions pushed so far, and whether the iteration panicked
Loop(w, queue, ret) == [ws |-> w, queue |-> queue, ret |-> ret, panic |-> FALSE]
LoopPanic(w, queue, ret) == [ws |-> w, queue |-> queue, ret |-> ret, panic |-> TRUE]

\* ret.push(action), recorded up to MaxRet actions
\* (Push_Front: the action is put before the ones already pushed)
Push_Front(ret, action) == IF Len(ret) < MaxRet THEN <<action>> \o ret ELSE ret
Push(ret, action) == IF Len(ret) < MaxRet THEN Append(ret, action) ELSE ret

\* the guarded write shared by the branches of update_sheet: skip when the
\* target already holds the value, else store it, push a Set action and
\* enqueue the target at the front or at the back
\* (WriteCell_Unguarded: the write is made whatever the target holds)
WriteCell_Unguarded(w, queue, ret, r, c, fe, front) ==
    Loop(SetVal(w, r, c, CharFromFe(fe)),
         IF front THEN <<(<<r, c>>)>> \o queue ELSE Append(queue, <<r, c>>),
         Push(ret, Action("Set", CellAt(w, r, c).dom_id, CharFromFe(fe))))
WriteCell(w, queue, ret, r, c, fe, front) ==
    IF CellAt(w, r, c).val = CharFromFe(fe)
    THEN Loop(w, queue, ret)
    ELSE Loop(SetVal(w, r, c, CharFromFe(fe)),
              IF front THEN <<(<<r, c>>)>> \o queue ELSE Append(queue, <<r, c>>),
              Push(ret, Action("Set", CellAt(w, r, c).dom_id, CharFromFe(fe))))

\* the loop "for (n, fe) in residue.iter().enumerate()" of the
\* LowerDiagonal branch, from index n on
RECURSIVE WriteResidue(_, _, _, _, _, _)
WriteResidue(w, queue, ret, ridx, residue, n) ==
    IF n >= Len(residue) THEN Loop(w, queue, ret)
    ELSE CHOOSE out \in {WriteResidue(st.ws, st.queue, st.ret, ridx, residue, n + 1) :
                         st \in {WriteCell(w, queue, ret, ridx + 1, 1 + n,
                                           residue[n + 1], FALSE)}} : TRUE

\* CellPos::LowerDiagonal
\* (LowerDiagonalBranch_SecondOnly: only the second cell of the row triggers)
LowerDiagonalBranch_SecondOnly(w, queue, ret, ridx, cidx) ==
    IF cidx # 2 THEN Loop(w, queue, ret) ELSE
    IF ~(NumCells(w, ridx) > 1) \/ ~InBounds(w, ridx, 1) \/ ~InBounds(w, ridx, 2)
    THEN LoopPanic(w, queue, ret)
    ELSE LET fe1 == ValFe(w, ridx, 1)
             fe2 == ValFe(w, ridx, 2)
             L == ChecksumLen(w.checksum)
         IN  IF fe1.tag = "Panic" \/ fe2.tag = "Panic" THEN LoopPanic(w, queue, ret)
             ELSE IF fe1.tag = "Some" /\ fe2.tag = "Some"
             THEN LET poly == mul_by_x(mul_by_x_then_add(<<fe1.fe>>, fe2.fe), L)
                  IN  IF ridx + 1 >= NumRows(w) THEN LoopPanic(w, queue, ret)
                      ELSE IF ~(NumCells(w, ridx + 1) >= L + 1) THEN LoopPanic(w, queue, ret)
                      ELSE CHOOSE out \in {WriteResidue(w, queue, ret, ridx, residue, 0) :
                                           residue \in {polymod(poly, Modulus(w.checksum))}} :
                                  TRUE
             ELSE Loop(w, queue, ret)
LowerDiagonalBranch(w, queue, ret, ridx, cidx) ==
    IF ~(NumCells(w, ridx) > 1) \/ ~InBounds(w, ridx, 1) \/ ~InBounds(w, ridx, 2)
    THEN LoopPanic(w, queue, ret)
    ELSE LET fe1 == ValFe(w, ridx, 1)
             fe2 == ValFe(w, ridx, 2)
             L == ChecksumLen(w.checksum)
         IN  IF fe1.tag = "Panic" \/ fe2.tag = "Panic" THEN LoopPanic(w, queue, ret)
             ELSE IF fe1.tag = "Some" /\ fe2.tag = "Some"
             THEN LET poly == mul_by_x(mul_by_x_then_add(<<fe1.fe>>, fe2.fe), L)
                  IN  IF ridx + 1 >= NumRows(w) THEN LoopPanic(w, queue, ret)
                      ELSE IF ~(NumCells(w, ridx + 1) >= L + 1) THEN LoopPanic(w, queue, ret)
                      ELSE CHOOSE out \in {WriteResidue(w, queue, ret, ridx, residue, 0) :
                                           residue \in {polymod(poly, Modulus(w.checksum))}} :
                                  TRUE
             ELSE Loop(w, queue, ret)

\* the four branches that add the cell to a neighbour and store the sum in
\* the next one: first is the neighbour whose value is read, then the
\* neighbour written to, in the order the source looks them up
\* CellPos::Sum
SumBranch(w, queue, ret, ridx, cidx, fe) ==
    LET below == cell_below(w, ridx, cidx)
    IN  IF below.tag = "Panic" THEN LoopPanic(w, queue, ret)
        ELSE IF below.tag = "None" THEN Loop(w, queue, ret)
        ELSE LET fe2 == ValFe(w, below.row, below.cell)
                 below2 == cell_below(w, below.row, below.cell)
             IN  IF fe2.tag = "Panic" THEN LoopPanic(w, queue, ret)
                 ELSE IF fe2.tag = "None" THEN Loop(w, queue, ret)
                 ELSE IF below2.tag = "Panic" THEN LoopPanic(w, queue, ret)
                 ELSE IF below2.tag = "None" THEN Loop(w, queue, ret)
                 ELSE WriteCell(w, queue, ret, below2.row, below2.cell,
                                FeAddTable[fe][fe2.fe], TRUE)

\* CellPos::SumChecksum
SumChecksumBranch(w, queue, ret, ridx, cidx, fe) ==
    LET above == cell_above(w, ridx, cidx)
    IN  IF above.tag = "Panic" THEN LoopPanic(w, queue, ret)
        ELSE IF above.tag = "None" THEN Loop(w, queue, ret)
        ELSE LET fe2 == ValFe(w, above.row, above.cell)
                 above2 == cell_above(w, above.row, above.cell)
             IN  IF fe2.tag = "Panic" THEN LoopPanic(w, queue, ret)
                 ELSE IF fe2.tag = "None" THEN Loop(w, queue, ret)
                 ELSE IF above2.tag = "Panic" THEN LoopPanic(w, queue, ret)
                 ELSE IF above2.tag = "None" THEN Loop(w, queue, ret)
                 ELSE WriteCell(w, queue, ret, above2.row, above2.cell,
                                FeAddTable[fe][fe2.fe], TRUE)

\* CellPos::Residue
\* (ResidueBranch_PushBack: the target is enqueued at the back)
ResidueBranch_PushBack(w, queue, ret, ridx, cidx, fe) ==
    LET above == cell_above(w, ridx, cidx)
    IN  IF above.tag = "Panic" THEN LoopPanic(w, queue, ret)
        ELSE IF above.tag = "None" THEN Loop(w, queue, ret)
        ELSE LET fe2 == ValFe(w, above.row, above.cell)
                 below == cell_below(w, ridx, cidx)
             IN  IF fe2.tag = "Panic" THEN LoopPanic(w, queue, ret)
                 ELSE IF fe2.tag = "None" THEN Loop(w, queue, ret)
                 ELSE IF below.tag = "Panic" THEN LoopPanic(w, queue, ret)
                 ELSE IF below.tag = "None" THEN Loop(w, queue, ret)
                 ELSE WriteCell(w, queue, ret, below.row, below.cell,
                                FeAddTable[fe][fe2.fe], FALSE)
ResidueBranch(w, queue, ret, ridx, cidx, fe) ==
    LET above == cell_above(w, ridx, cidx)
    IN  IF above.tag = "Panic" THEN LoopPanic(w, queue, ret)
        ELSE IF above.tag = "None" THEN Loop(w, queue, ret)
        ELSE LET fe2 == ValFe(w, above.row, above.cell)
                 below == cell_below(w, ridx, cidx)
             IN  IF fe2.tag = "Panic" THEN LoopPanic(w, queue, ret)
                 ELSE IF fe2.tag = "None" THEN Loop(w, queue, ret)
                 ELSE IF below.tag = "Panic" THEN LoopPanic(w, queue, ret)
                 ELSE IF below.tag = "None" THEN Loop(w, queue, ret)
                 ELSE WriteCell(w, queue, ret, below.row, below.cell,
                                FeAddTable[fe][fe2.fe], TRUE)

\* CellPos::ResidueChecksum
ResidueChecksumBranch(w, queue, ret, ridx, cidx, fe) ==
    LET below == cell_below(w, ridx, cidx)
    IN  IF below.tag = "Panic" THEN LoopPanic(w, queue, ret)
        ELSE IF below.tag = "None" THEN Loop(w, queue, ret)
        ELSE LET fe2 == ValFe(w, below.row, below.cell)
                 above == cell_above(w, ridx, cidx)
             IN  IF fe2.tag = "Panic" THEN LoopPanic(w, queue, ret)
                 ELSE IF fe2.tag = "None" THEN Loop(w, queue, ret)
                 ELSE IF above.tag = "Panic" THEN LoopPanic(w, queue, ret)
                 ELSE IF above.tag = "None" THEN Loop(w, queue, ret)
                 ELSE WriteCell(w, queue, ret, above.row, above.cell,
                                FeAddTable[fe][fe2.fe], FALSE)

\* one iteration of "while let Some((ridx, cidx)) = queue.pop_front()"
update_sheet_iter(w, queue, ret) ==
    LET ridx == Head(queue)[1]
        cidx == Head(queue)[2]
        rest == Tail(queue)
        fe == ValFe(w, ridx, cidx)
        pos == cell_pos(ridx, cidx, w)
    IN  IF ~InBounds(w, ridx, cidx) THEN LoopPanic(w, rest, ret)
        ELSE IF fe.tag = "Panic" THEN LoopPanic(w, rest, ret)
        ELSE IF fe.tag = "None" THEN Loop(w, rest, ret)
        ELSE CASE pos = "LowerDiagonal" -> LowerDiagonalBranch(w, rest, ret, ridx, cidx)
               [] pos = "Sum" -> SumBranch(w, rest, ret, ridx, cidx, fe.fe)
               [] pos = "SumChecksum" -> SumChecksumBranch(w, rest, ret, ridx, cidx, fe.fe)
               [] pos = "Residue" -> ResidueBranch(w, rest, ret, ridx, cidx, fe.fe)
               [] pos = "ResidueChecksum" ->
                    ResidueChecksumBranch(w, rest, ret, ridx, cidx, fe.fe)

\* what handle_input_change hands on: either the call is over (done, with
\* its result) or update_sheet starts with the given queue and ret
Done(w, res) == [done |-> TRUE, ws |-> w, result |-> res, queue |-> <<>>, ret |-> <<>>]

\* the arm "0 =>" of the match on val.len(): clear the cell, no actions
\* (ClearInput_Keep: returning without clearing the cell)
ClearInput_Keep(w, ridx, cidx) ==
    Done(w, [tag |-> "Ok", actions |-> <<>>])
ClearInput(w, ridx, cidx) ==
    Done(SetVal(w, ridx, cidx, None), [tag |-> "Ok", actions |-> <<>>])

\* the three places that return a single FlashError and leave the sheet alone
\* (RejectInput_Silent: returning no action at all)
RejectInput_Silent(w, id) == Done(w, [tag |-> "Ok", actions |-> <<>>])
RejectInput(w, id) == Done(w, FlashError(id))

\* the accepted character: store ch_u, start ret with a FlashSet when the
\* typed character differs from it, and enter update_sheet(ridx, cidx)
\* (AcceptInput_NoFlash: ret always starts empty)
AcceptInput_NoFlash(w, id, ridx, cidx, ch, ch_u) ==
    [done |-> FALSE,
     ws |-> SetVal(w, ridx, cidx, ch_u),
     result |-> [tag |-> "None"],
     queue |-> <<(<<ridx, cidx>>)>>,
     ret |-> <<>>]
AcceptInput(w, id, ridx, cidx, ch, ch_u) ==
    [done |-> FALSE,
     ws |-> SetVal(w, ridx, cidx, ch_u),
     result |-> [tag |-> "None"],
     queue |-> <<(<<ridx, cidx>>)>>,
     ret |-> IF ch = ch_u THEN <<>> ELSE <<Action("FlashSet", id, ch_u)>>]

\* Worksheet::handle_input_change up to the call of update_sheet
handle_input_change(w, id, val) ==
    LET cell == cell_from_name(id)
    IN  IF cell.tag = "Err" THEN Done(w, cell)
        ELSE IF cell.row >= NumRows(w)
        THEN Done(w, [tag |-> "Err",
                      err |-> [kind |-> "InvalidRow", row |-> cell.row,
                               n_rows |-> NumRows(w)]])
        ELSE IF cell.cell >= NumCells(w, cell.row)
        THEN Done(w, [tag |-> "Err",
                      err |-> [kind |-> "InvalidCell", cell |-> cell.cell,
                               row |-> cell.row, n_cells |-> NumCells(w, 0)]])
        ELSE IF Len(val) = 0 THEN ClearInput(w, cell.row, cell.cell)
        ELSE IF Len(val) = 1
        THEN LET ch == Chr(val[1])
                 ch_u == ToAsciiUppercase(ch)
             IN  IF val[1] > 127 THEN RejectInput(w, id)
                 ELSE IF FeTryFrom(ch_u).tag = "Err" THEN RejectInput(w, id)
                 ELSE AcceptInput(w, id, cell.row, cell.cell, ch, ch_u)
        ELSE RejectInput(w, id)

(***************************************************************************)
(* The state machine: one worksheet, built once, then edited by calls of   *)
(* handle_input_change, each running the loop of update_sheet to its end.  *)
(***************************************************************************)
VARIABLES
    args,     \* the arguments Worksheet::new was called with
    built,    \* what Worksheet::new returned: Ok, Err(e) or a panic
    ws,       \* the worksheet (struct Worksheet)
    pc,       \* "idle", "update_sheet" (inside the loop) or "panicked"
    queue,    \* the VecDeque of update_sheet
    ret,      \* the action vector being built by the running call
    call,     \* the arguments of the last handle_input_change call
    result,   \* what the last handle_input_change call returned
    nEdits,   \* number of handle_input_change calls made
    edited,   \* the cells <<row, cell>> that calls stored a character in
    cleared,  \* the cells <<row, cell>> that calls cleared
    prev,     \* the worksheet as it was when the latest call began
    script,   \* the calls a scripted run still has to make
    replay,   \* a run made twice: its calls and what its first pass gave
    pure      \* a function of fe.rs, its arguments and what it returned

vars == <<args, built, ws, pc, queue, ret, call, result, nEdits, edited, cleared, prev, script,
          replay, pure>>

\* the inputs the model draws from: the (hrp, checksum, create_mode) a
\* worksheet is built with, every size from one below hrp.len() + L up to
\* data length MaxDataLen (the sheet with an empty hrp and no data cell is
\* left out), and the (id, val) pairs of the edits
Configs ==
    {<<"", "Bech32", "Create">>, <<"m", "Bech32", "Create">>,
     <<"ms", "Bech32", "Create">>, <<"ms", "Bech32", "Verify">>,
     <<"ms", "Codex32", "Create">>}
Sizes(hrp, checksum) ==
    LET base == Len(hrp) + ChecksumLen(checksum)
    IN  {n \in (base - 1)..(base + 1 + MaxDataLen) :
            n >= 0 /\ ~(hrp = "" /\ n = base + 1)}
EditCells ==
    {"inp_0_1", "inp_0_2", "inp_0_3", "inp_0_4", "inp_1_0", "inp_1_1",
     "inp_2_1", "inp_2_3", "inp_3_1", "inp_4_1"}
Calls ==
    {<<id, Utf8(val)>> : id \in EditCells, val \in {"c", ""}}
    \cup {<<"inp_0_2", Utf8("Q")>>, <<"inp_0_3", Utf8("Q")>>, <<"inp_0_3", Utf8("2")>>,
          <<"inp_0_3", Utf8("!")>>, <<"inp_0_3", Utf8("b")>>, <<"inp_0_3", Utf8("cc")>>,
          <<"inp_0_3", EAcute>>,
          <<"inp_0_99", Utf8("c")>>, <<"inp_1_99", Utf8("c")>>, <<"inp_9_0", Utf8("c")>>,
          <<"inP_0_0", Utf8("c")>>,
          <<"inp_0", Utf8("c")>>, <<"inp__", Utf8("c")>>, <<"inp_0_0_0", Utf8("c")>>,
          <<"inp_0_x", Utf8("c")>>}

NoCall == [id |-> "", val |-> <<>>]
NoResult == [tag |-> "None"]
\* no run is made twice; no function of fe.rs is applied on its own
NoReplay == [mode |-> "none", calls |-> <<>>, ws1 |-> NoWorksheet, log1 |-> <<>>]
NoPure == [fn |-> "none", in |-> <<>>, applied |-> FALSE, out |-> <<>>]

InitWith(a, o) ==
    /\ args = a
    /\ built = IF o.tag = "Ok" THEN [tag |-> "Ok"] ELSE o
    /\ ws = IF o.tag = "Ok" THEN o.ws ELSE NoWorksheet
    /\ pc = "idle"
    /\ queue = <<>>
    /\ ret = <<>>
    /\ call = NoCall
    /\ result = NoResult
    /\ nEdits = 0
    /\ edited = {}
    /\ cleared = {}
    /\ prev = IF o.tag = "Ok" THEN o.ws ELSE NoWorksheet

\* the edits of the two end-to-end scenarios: the bech32 sheet of size 17 and
\* the codex32 sheet of size 48 (tests::user_test), both with hrp "ms"
EditC(r, c) == <<FmtId(r, c), Utf8("c")>>
Bech32Script ==
    [i \in 1..5 |-> EditC(0, 2 + i)] \o <<EditC(2, 7), EditC(2, 8), EditC(0, 8)>>
Codex32Script ==
    [i \in 1..13 |-> EditC(0, 2 + i)]
    \o [i \in 1..18 |-> EditC(2 * ((i + 1) \div 2), 14 + ((i + 1) % 2))]
    \o <<EditC(20, 14)>>
\* four share cells of the bech32 sheet of size 13 are filled, then the first
\* one is given another value
ReplaceScript ==
    [i \in 1..4 |-> EditC(0, 2 + i)] \o <<(<<FmtId(0, 3), Utf8("Q")>>)>>
Scripts ==
    {[hrp |-> "ms", checksum |-> "Bech32", size |-> 17, calls |-> Bech32Script],
     [hrp |-> "ms", checksum |-> "Codex32", size |-> 48, calls |-> Codex32Script],
     [hrp |-> "ms", checksum |-> "Bech32", size |-> 13, calls |-> ReplaceScript]}

InitScript ==
    \E sc \in Scripts :
      \E o \in Worksheet_new(sc.hrp, "Create", sc.size, sc.checksum) :
        /\ InitWith([hrp |-> sc.hrp, create_mode |-> "Create", size |-> sc.size,
                     checksum |-> sc.checksum], o)
        /\ script = sc.calls
        /\ replay = NoReplay
        /\ pure = NoPure

Init ==
    \E cfg \in Configs :
      \E size \in Sizes(cfg[1], cfg[2]) :
        \E o \in Worksheet_new(cfg[1], cfg[3], size, cfg[2]) :
          /\ InitWith([hrp |-> cfg[1], create_mode |-> cfg[3], size |-> size,
                       checksum |-> cfg[2]], o)
          /\ script = <<>>
          /\ replay = NoReplay
          /\ pure = NoPure

\* a call of handle_input_change(id, val) on the worksheet
DoCall(id, val) ==
    LET r == handle_input_change(ws, id, val)
    IN  /\ pc = "idle"
        /\ built.tag = "Ok"
        /\ call' = [id |-> id, val |-> val]
        /\ nEdits' = nEdits + 1
        /\ ws' = r.ws
        /\ queue' = r.queue
        /\ ret' = r.ret
        /\ result' = r.result
        /\ pc' = IF r.done THEN "idle" ELSE "update_sheet"
        /\ edited' = IF ~r.done
                      THEN edited \cup {<<cell_from_name(id).row, cell_from_name(id).cell>>}
                      ELSE edited
        /\ cleared' = IF r.done /\ r.result = [tag |-> "Ok", actions |-> <<>>]
                       THEN cleared \cup {<<cell_from_name(id).row, cell_from_name(id).cell>>}
                       ELSE cleared
        /\ prev' = ws
        /\ UNCHANGED <<args, built>>

\* the host edits a cell
Edit ==
    /\ nEdits < MaxEdits
    /\ script = <<>>
    /\ \E c \in Calls : DoCall(c[1], c[2])
    /\ UNCHANGED <<script, replay, pure>>

\* one iteration of the loop of update_sheet
UpdateSheetStep ==
    /\ pc = "update_sheet"
    /\ queue # <<>>
    /\ LET st == update_sheet_iter(ws, queue, ret)
       IN  /\ ws' = st.ws
           /\ queue' = st.queue
           /\ ret' = st.ret
           /\ pc' = IF st.panic THEN "panicked" ELSE "update_sheet"
    /\ UNCHANGED <<args, built, call, result, nEdits, edited, cleared, prev, script, replay,
                   pure>>

\* the queue is empty: update_sheet returns Ok(ret), handle_input_change
\* returns the FlashSet action (if any) followed by it
UpdateSheetReturn ==
    /\ pc = "update_sheet"
    /\ queue = <<>>
    /\ result' = [tag |-> "Ok", actions |-> ret]
    /\ ret' = <<>>
    /\ pc' = "idle"
    /\ UNCHANGED <<args, built, ws, queue, call, nEdits, edited, cleared, prev, script, replay,
                   pure>>

Next == Edit \/ UpdateSheetStep \/ UpdateSheetReturn

Spec == Init /\ [][Next]_vars

\* the next call of a scripted run
ScriptEdit ==
    /\ script # <<>>
    /\ replay = NoReplay
    /\ DoCall(Head(script)[1], Head(script)[2])
    /\ script' = Tail(script)
    /\ UNCHANGED <<replay, pure>>

NextScript == ScriptEdit \/ UpdateSheetStep \/ UpdateSheetReturn

\* the scripted runs of the end-to-end scenarios
SpecScript == InitScript /\ [][NextScript]_vars

\* update_sheet is a plain loop: while it is running its next iteration (or
\* its return) is taken
FairSpec == Spec /\ WF_vars(UpdateSheetStep) /\ WF_vars(UpdateSheetReturn)

(***************************************************************************)
(* Vocabulary of the properties.                                           *)
(***************************************************************************)
Built == built.tag = "Ok"
\* all positions <<row, cell>> of the worksheet
Positions(w) == {<<r, c>> : r \in 0..(NumRows(w) - 1), c \in 0..16} \cap
                {p \in (0..(NumRows(w) - 1)) \X (0..16) : p[2] < NumCells(w, p[1])}
TyAt(w, p) == CellAt(w, p[1], p[2]).ty
ValAt(w, p) == CellAt(w, p[1], p[2]).val
\* the absolute column of a position: its row's start offset plus its index
Column(w, p) == RowAt(w, p[1]).start_idx + p[2]
DataHead(w) == {p \in Positions(w) : TyAt(w, p) = "ShareData"}
ChecksumTail(w) == {p \in Positions(w) : TyAt(w, p) = "ShareDataChecksum"}
ShareCells(w) == DataHead(w) \cup ChecksumTail(w)
\* the share cells in column order, and their symbols as field elements
ShareAt(w, k) == CHOOSE p \in ShareCells(w) : Column(w, p) = Len(w.hrp) + k
ShareSymbols(w) ==
    [k \in 1..Cardinality(ShareCells(w)) |-> FeOfChar[ValAt(w, ShareAt(w, k))]]
\* the expansion of the HRP that precedes the share symbols in the checksum
HrpExpansion(hrp) ==
    <<1>> \o [i \in 1..Len(hrp) |-> Ord(ToAsciiLowercase(SubSeq(hrp, i, i))) \div 32]
    \o <<0>> \o [i \in 1..Len(hrp) |-> Ord(ToAsciiLowercase(SubSeq(hrp, i, i))) % 32]
\* the fixed global-residue literal, as field elements
Literal(checksum) ==
    LET str == IF checksum = "Codex32" THEN "SECRETSHARE32" ELSE "QQQQQP"
    IN  [i \in 1..Len(str) |-> FeOfChar[SubSeq(str, i, i)]]
\* the share is complete and its checksum verifies
ChecksumValid(w) ==
    /\ \A p \in ShareCells(w) : ValAt(w, p) \in DOMAIN FeOfChar
    /\ polymod(HrpExpansion(w.hrp) \o ShareSymbols(w), Modulus(w.checksum))
         = Literal(w.checksum)
\* every data-head share cell was entered, by accepted edits of data-head
\* share cells only, and the call has returned
DataEntered ==
    /\ Built /\ pc = "idle"
    /\ DataHead(ws) # {}
    /\ edited = DataHead(ws) /\ cleared = {}
    /\ \A p \in DataHead(ws) : ValAt(ws, p) # None

\* the cell a call addresses, when the id parses and the cell exists
Addressed(w, id) ==
    /\ cell_from_name(id).tag = "Ok"
    /\ InBounds(w, cell_from_name(id).row, cell_from_name(id).cell)
Target(id) == <<cell_from_name(id).row, cell_from_name(id).cell>>
\* a step that is a call of handle_input_change
IsCall == nEdits' = nEdits + 1
\* a call has returned a value (it neither runs nor has aborted)
Returned == Built /\ pc = "idle" /\ nEdits > 0
\* the values handle_input_change accepts, and those it answers with FlashError
ValidChar(val) ==
    /\ Len(val) = 1
    /\ val[1] <= 127
    /\ ToAsciiUppercase(Chr(val[1])) \in DOMAIN FeOfChar
BadValue(val) == Len(val) > 0 /\ ~ValidChar(val)
\* the structure of a worksheet: everything but the cell values
Shape(w) ==
    [hrp |-> w.hrp, size |-> w.size, checksum |-> w.checksum, create_mode |-> w.create_mode,
     rows |-> [r \in 1..Len(w.rows) |->
                 [start_idx |-> w.rows[r].start_idx,
                  cells |-> [c \in 1..Len(w.rows[r].cells) |->
                               [ty |-> w.rows[r].cells[c].ty,
                                dom_id |-> w.rows[r].cells[c].dom_id]]]]]
\* the cell types of row ridx after its leading FixedHrp or Symbol cells
RowTypes(w, ridx) ==
    SelectSeq([c \in 1..NumCells(w, ridx) |-> CellAt(w, ridx, c - 1).ty],
              LAMBDA ty : ty \notin {"FixedHrp", "Symbol"})
ShareTypes == {"ShareData", "ShareDataChecksum"}
SumTypes == {"Sum", "SumChecksum"}
ResidueTypes == {"Residue", "ResidueChecksum"}
AllIn(types, T) == \A k \in 1..Len(types) : types[k] \in T

(***************************************************************************)
(* C1: in create mode, once every data-head ShareData cell has been set by *)
(* valid single-character edits (and no other cell was edited), every      *)
(* checksum-tail ShareData cell is non-empty and the HRP expansion         *)
(* followed by all share symbols in column order reduces modulo the        *)
(* generator to the fixed global-residue literal.                          *)
(***************************************************************************)
C1_ChecksumCompleted ==
    (DataEntered /\ ws.create_mode = "Create") =>
        /\ \A p \in ChecksumTail(ws) : ValAt(ws, p) # None
        /\ ChecksumValid(ws)

(***************************************************************************)
(* C2: on the bech32 worksheet with hrp "ms" and size 17 in create mode,   *)
(* after the first five share cells of row 0, the two ShareData cells of   *)
(* row 2 and the sixth share cell of row 0 were set to 'c', the ShareData  *)
(* cells of row 4 hold 5 and J, those of row 6 hold 3 and C, and those of  *)
(* row 8 hold G and S.                                                     *)
(***************************************************************************)
Bech32ScriptDone ==
    /\ Built /\ args.checksum = "Bech32" /\ args.hrp = "ms" /\ args.size = 17
    /\ script = <<>> /\ pc = "idle" /\ nEdits = Len(Bech32Script)
C2_Bech32Scenario ==
    Bech32ScriptDone =>
        /\ ValAt(ws, <<4, 7>>) = "5" /\ ValAt(ws, <<4, 8>>) = "J"
        /\ ValAt(ws, <<6, 7>>) = "3" /\ ValAt(ws, <<6, 8>>) = "C"
        /\ ValAt(ws, <<8, 7>>) = "G" /\ ValAt(ws, <<8, 8>>) = "S"
C2_ScenarioRun ==
    /\ Bech32ScriptDone
    /\ \A c \in 3..8 : ValAt(ws, <<0, c>>) = "C"
    /\ {TyAt(ws, <<r, c>>) : r \in {4, 6, 8}, c \in {7, 8}} = {"ShareDataChecksum"}

(***************************************************************************)
(* C3: every call of handle_input_change terminates: once the loop of      *)
(* update_sheet is running, its work queue eventually becomes empty and    *)
(* the loop is left.                                                       *)
(***************************************************************************)
C3_Terminates == (pc = "update_sheet") ~> (pc # "update_sheet")

(***************************************************************************)
(* C4: handle_input_change never aborts (failed unwrap, failed assertion,  *)
(* index out of range), whichever existing cell the id addresses.          *)
(***************************************************************************)
C4_NeverAborts == pc # "panicked"

(***************************************************************************)
(* C5: a call on an existing cell with a value that is longer than one     *)
(* character, not ASCII, or one character outside the bech32 alphabet      *)
(* returns exactly one FlashError action with the given id and no value,   *)
(* and leaves every cell value unchanged.                                  *)
(***************************************************************************)
C5_InputRejected ==
    [][(IsCall /\ Addressed(ws, call'.id) /\ BadValue(call'.val)) =>
          /\ pc' = "idle"
          /\ result' = [tag |-> "Ok",
                        actions |-> <<Action("FlashError", call'.id, None)>>]
          /\ \A p \in Positions(ws) : ValAt(ws', p) = ValAt(ws, p)]_vars
C5_RejectedOnSetCell ==
    /\ Returned /\ Addressed(ws, call.id) /\ BadValue(call.val)
    /\ Target(call.id) \in edited
    /\ ValAt(ws, Target(call.id)) = "C"
    /\ result.tag = "Ok" /\ Len(result.actions) = 1

(***************************************************************************)
(* C6: a call on an existing cell with the empty string empties that cell, *)
(* returns the empty action list, and leaves every other cell's value as   *)
(* it was: cells derived from the cleared cell keep their values.          *)
(***************************************************************************)
C6_ClearKeepsOthers ==
    [][(IsCall /\ Addressed(ws, call'.id) /\ call'.val = <<>>) =>
          /\ pc' = "idle"
          /\ result' = [tag |-> "Ok", actions |-> <<>>]
          /\ ValAt(ws', Target(call'.id)) = None
          /\ \A p \in Positions(ws) \ {Target(call'.id)} :
                ValAt(ws', p) = ValAt(ws, p)]_vars
C6_ClearedWithStaleSum ==
    /\ Returned /\ Addressed(ws, call.id) /\ call.val = <<>>
    /\ Target(call.id) \in edited \cap cleared
    /\ ValAt(ws, Target(call.id)) = None
    /\ \E p \in Positions(ws) : TyAt(ws, p) \in SumTypes /\ ValAt(ws, p) # None

(***************************************************************************)
(* C7: after a valid single-character edit the edited cell holds the       *)
(* upper-cased character; when the typed character was lower case the      *)
(* action list starts with the only FlashSet action, on the edited cell    *)
(* with the upper-cased character, and otherwise it has no FlashSet.       *)
(***************************************************************************)
C7_FlashSetFirst ==
    (Returned /\ Addressed(ws, call.id) /\ ValidChar(call.val)) =>
        LET ch == Chr(call.val[1])
            ch_u == ToAsciiUppercase(ch)
            acts == result.actions
            flashes == {k \in 1..Len(acts) : acts[k].ty = "FlashSet"}
        IN  /\ result.tag = "Ok"
            /\ ValAt(ws, Target(call.id)) = ch_u
            /\ IF ch # ch_u
               THEN flashes = {1} /\ acts[1] = Action("FlashSet", call.id, ch_u)
               ELSE flashes = {}
C7_LowerCaseThenSets ==
    /\ Returned /\ Addressed(ws, call.id) /\ call.val = Utf8("c")
    /\ result.tag = "Ok" /\ Len(result.actions) >= 2
    /\ result.actions[1].ty = "FlashSet"
    /\ result.actions[2].ty = "Set"

(***************************************************************************)
(* C8: Worksheet::new returns TooShort{minimum: h+L, actual: size} exactly *)
(* when size < h + L, otherwise OddLength exactly when size - h - L - 1 is *)
(* odd, otherwise a worksheet; for every size >= h + L the data length     *)
(* does not go below zero or wrap and construction does not abort.         *)
(***************************************************************************)
C8_NewOutcome ==
    LET h == Len(args.hrp)
        L == ChecksumLen(args.checksum)
        diff == args.size - h - L - 1
    IN  IF args.size < h + L
        THEN built = [tag |-> "Err",
                      err |-> [kind |-> "TooShort", minimum |-> h + L,
                               actual |-> args.size]]
        ELSE /\ built.tag # "Panic"
             /\ diff >= 0
             /\ IF diff % 2 = 1
                THEN built = [tag |-> "Err",
                              err |-> [kind |-> "OddLength",
                                       data_len |-> [wrapped |-> FALSE, val |-> diff]]]
                ELSE built.tag = "Ok"

(***************************************************************************)
(* C9: a built worksheet with data length d = size - h - L - 1 has         *)
(* 2*(d/2 + 1) + 1 rows: L share cells in the first row, L residue cells   *)
(* in the second, then pairs of a sum row (L sum cells, then 2 share       *)
(* cells) and a residue row (L residue cells), and L GlobalResidue cells   *)
(* in the last row; the sheet has size - h - 1 share cells in all.         *)
(***************************************************************************)
C9_RowLayout ==
    Built =>
        LET h == Len(ws.hrp)
            L == ChecksumLen(ws.checksum)
            d == ws.size - h - L - 1
            n == NumRows(ws)
        IN  /\ n = 2 * ((d \div 2) + 1) + 1
            /\ Len(RowTypes(ws, 0)) = L /\ AllIn(RowTypes(ws, 0), ShareTypes)
            /\ RowTypes(ws, 1) = [k \in 1..L |-> "FixedResidue"]
            /\ \A r \in 2..(n - 2) :
                  IF r % 2 = 0
                  THEN /\ Len(RowTypes(ws, r)) = L + 2
                       /\ AllIn(SubSeq(RowTypes(ws, r), 1, L), SumTypes)
                       /\ AllIn(SubSeq(RowTypes(ws, r), L + 1, L + 2), ShareTypes)
                  ELSE /\ Len(RowTypes(ws, r)) = L
                       /\ AllIn(RowTypes(ws, r), ResidueTypes)
            /\ RowTypes(ws, n - 1) = [k \in 1..L |-> "GlobalResidue"]
            /\ Cardinality(ShareCells(ws)) = ws.size - h - 1
C9_SheetWithPair ==
    /\ Built /\ NumRows(ws) = 5
    /\ ws.size - Len(ws.hrp) - ChecksumLen(ws.checksum) - 1 = 2
    /\ Len(RowTypes(ws, 2)) = ChecksumLen(ws.checksum) + 2

(***************************************************************************)
(* C10: no call of handle_input_change, whether it succeeds, flashes an    *)
(* error or returns an error, changes the structure of the worksheet: hrp, *)
(* size, checksum kind, create mode, the number of rows, each row's start  *)
(* offset and number of cells, and each cell's type and id stay as built.  *)
(***************************************************************************)
C10_StructureFixed == [][Shape(ws') = Shape(ws)]_vars
C10_EditedThenError ==
    /\ Returned /\ result.tag = "Err"
    /\ edited # {}
    /\ \E p \in Positions(ws) : TyAt(ws, p) \in SumTypes /\ ValAt(ws, p) # None

(***************************************************************************)
(* C11: right after construction the L GlobalResidue cells of the final    *)
(* row hold the fixed literal in create mode and are all empty in verify   *)
(* mode.                                                                   *)
(***************************************************************************)
\* the values of the GlobalResidue cells of the final row, in order
GlobalResidueVals(w) ==
    LET last == NumRows(w) - 1
        cs == SelectSeq([c \in 1..NumCells(w, last) |-> CellAt(w, last, c - 1)],
                        LAMBDA cl : cl.ty = "GlobalResidue")
    IN  [k \in 1..Len(cs) |-> cs[k].val]
LiteralChars(checksum) ==
    LET str == IF checksum = "Codex32" THEN "SECRETSHARE32" ELSE "QQQQQP"
    IN  [i \in 1..Len(str) |-> SubSeq(str, i, i)]
C11_FinalRowInit ==
    (Built /\ nEdits = 0) =>
        /\ Len(GlobalResidueVals(ws)) = ChecksumLen(ws.checksum)
        /\ IF ws.create_mode = "Create"
           THEN GlobalResidueVals(ws) = LiteralChars(ws.checksum)
           ELSE \A k \in 1..Len(GlobalResidueVals(ws)) : GlobalResidueVals(ws)[k] = None

(***************************************************************************)
(* C12: cell_below(r, c) is None in the last row, None when c is less than *)
(* the adjustment, and (r+1, c - adjustment) otherwise; cell_above(r, c)   *)
(* is None in row 0, None when c + adjustment reaches past the row above,  *)
(* and (r-1, c + adjustment) otherwise.  As stated the adjustment of       *)
(* cell_below is 2 for even r > 0 and 0 otherwise, and that of cell_above  *)
(* is 2 for odd r and 0 otherwise.                                         *)
(***************************************************************************)
\* cell_below and cell_above with a given adjustment, as the statement
\* describes them
BelowWith(w, r, c, adj) ==
    IF r = NumRows(w) - 1 THEN NoneV
    ELSE IF c < adj THEN NoneV
    ELSE SomeCell(r + 1, c - adj)
AboveWith(w, r, c, adj) ==
    IF r = 0 THEN NoneV
    ELSE IF c + adj >= NumCells(w, r - 1) THEN NoneV
    ELSE SomeCell(r - 1, c + adj)
\* the worksheet of tests::user_test
UserTestSheet == (CHOOSE o \in Worksheet_new("ms", "Create", 48, "Codex32") : o.tag = "Ok").ws
UserTestInstance ==
    /\ cell_below(UserTestSheet, 2, 15) = SomeCell(3, 13)
    /\ cell_below(UserTestSheet, 3, 13) = SomeCell(4, 13)
C12_NeighboursAsStated ==
    Built =>
        /\ \A p \in Positions(ws) :
              /\ cell_below(ws, p[1], p[2])
                   = BelowWith(ws, p[1], p[2], IF p[1] > 0 /\ p[1] % 2 = 0 THEN 2 ELSE 0)
              /\ cell_above(ws, p[1], p[2])
                   = AboveWith(ws, p[1], p[2], IF p[1] % 2 = 1 THEN 2 ELSE 0)
        /\ (nEdits = 0 => UserTestInstance)
\* C12 with the adjustments the rows' start offsets give: from row 0 to row 1
\* the adjustment is the hrp length h, and cell_below is also None when the
\* cell it reaches is the Symbol cell that starts the row below
C12_Neighbours ==
    Built =>
        /\ \A p \in Positions(ws) :
              LET r == p[1]
                  c == p[2]
                  h == Len(ws.hrp)
                  adjB == IF r = 0 THEN h ELSE IF r % 2 = 0 THEN 2 ELSE 0
                  adjA == IF r = 1 THEN h ELSE IF r % 2 = 1 THEN 2 ELSE 0
              IN  /\ cell_below(ws, r, c)
                       = IF c = adjB THEN NoneV ELSE BelowWith(ws, r, c, adjB)
                  /\ cell_above(ws, r, c) = AboveWith(ws, r, c, adjA)
        /\ (nEdits = 0 => UserTestInstance)
C12_NeighbourOfRowZero ==
    /\ Built /\ Len(ws.hrp) = 1 /\ NumRows(ws) = 5
    /\ cell_below(ws, 0, 2) = SomeCell(1, 1)
    /\ cell_above(ws, 1, 1) = SomeCell(0, 2)
    /\ cell_below(ws, 2, 3) = SomeCell(3, 1)
    /\ cell_below(ws, 2, 2) = NoneV

(***************************************************************************)
(* C14: in the action list one handle_input_change call returns, no cell   *)
(* id appears in more than one Set action.                                 *)
(***************************************************************************)
\* the indices of the Set actions of an action list
SetIndices(actions) == {i \in 1..Len(actions) : actions[i].ty = "Set"}
C14_SetOncePerCall ==
    (Returned /\ result.tag = "Ok") =>
        \A i \in SetIndices(result.actions) :
            \A j \in SetIndices(result.actions) :
                i # j => result.actions[i].id # result.actions[j].id

(***************************************************************************)
(* Runs made twice: a sequence of calls is applied to a fresh worksheet,   *)
(* and then applied again, either to the worksheet the first pass left     *)
(* ("again") or to a second worksheet built with the same arguments        *)
(* ("copy").                                                               *)
(***************************************************************************)
\* longest sequence of calls drawn for a run made twice
MaxReplay == 2
\* all sequences over S of length 1..n
Seqs(S, n) == UNION {[1..k -> S] : k \in 1..n}
ReplayCalls ==
    {<<"inp_0_3", Utf8("c")>>, <<"inp_0_3", Utf8("Q")>>, <<"inp_0_3", Utf8("")>>,
     <<"inp_0_3", Utf8("b")>>, <<"inp_0_3", Utf8("!")>>, <<"inp_0_4", Utf8("c")>>,
     <<"inp_2_1", Utf8("2")>>, <<"inp_9_0", Utf8("c")>>}
ReplayRuns ==
    Scripts \cup
    {[hrp |-> "ms", checksum |-> "Bech32", size |-> 11, calls |-> calls] :
        calls \in Seqs(ReplayCalls, MaxReplay)}

\* the worksheet Worksheet::new returns for the given arguments
\* (FreshCopy_Longer: built two columns longer)
FreshCopy_Longer(a) ==
    (CHOOSE o \in Worksheet_new(a.hrp, a.create_mode, a.size + 2, a.checksum) :
        o.tag = "Ok").ws
FreshCopy(a) ==
    (CHOOSE o \in Worksheet_new(a.hrp, a.create_mode, a.size, a.checksum) :
        o.tag = "Ok").ws

InitReplay ==
    \E run \in ReplayRuns :
      \E o \in Worksheet_new(run.hrp, "Create", run.size, run.checksum) :
        /\ InitWith([hrp |-> run.hrp, create_mode |-> "Create", size |-> run.size,
                     checksum |-> run.checksum], o)
        /\ script = run.calls
        /\ replay = [mode |-> "first", calls |-> run.calls, ws1 |-> NoWorksheet,
                     log1 |-> <<>>]
        /\ pure = NoPure

\* the next call of the run; in the first pass what the call before it
\* returned is kept
ReplayEdit ==
    /\ replay.mode # "none"
    /\ script # <<>>
    /\ DoCall(Head(script)[1], Head(script)[2])
    /\ script' = Tail(script)
    /\ replay' = IF replay.mode = "first" /\ nEdits > 0
                  THEN [replay EXCEPT !.log1 = Append(@, result)]
                  ELSE replay
    /\ UNCHANGED pure

\* the first pass is over: keep its worksheet and its last result, and start
\* the same calls again on that worksheet or on a fresh copy
SecondPass ==
    /\ replay.mode = "first"
    /\ script = <<>>
    /\ pc = "idle"
    /\ nEdits > 0
    /\ \E mode \in {"again", "copy"} :
          /\ replay' = [replay EXCEPT !.mode = mode, !.ws1 = ws,
                                      !.log1 = Append(@, result)]
          /\ ws' = IF mode = "copy" THEN FreshCopy(args) ELSE ws
    /\ script' = replay.calls
    /\ UNCHANGED <<args, built, pc, queue, ret, call, result, nEdits, edited, cleared, prev,
                   pure>>

NextReplay == ReplayEdit \/ SecondPass \/ UpdateSheetStep \/ UpdateSheetReturn

SpecReplay == InitReplay /\ [][NextReplay]_vars

\* the cell values of a worksheet, row by row
Values(w) == [r \in 1..Len(w.rows) |->
                [c \in 1..Len(w.rows[r].cells) |-> w.rows[r].cells[c].val]]
\* a call of the second pass has returned; the second pass is over
SecondPassReturned ==
    /\ replay.mode \in {"again", "copy"}
    /\ pc = "idle"
    /\ nEdits > Len(replay.calls)
SecondPassDone == SecondPassReturned /\ script = <<>>

MaxCoeffs == 3
\* no worksheet is constructed
NoArgs == [hrp |-> "", create_mode |-> "Create", size |-> 0, checksum |-> "Bech32"]
worksheetVars == <<args, built, ws, pc, queue, ret, call, result, nEdits, edited, cleared, prev,
                   script, replay>>
PureIn(fn, in) == [fn |-> fn, in |-> in, applied |-> FALSE, out |-> <<>>]
Applied(out) == [pure EXCEPT !.applied = TRUE, !.out = out]
\* the printable ASCII characters
PrintableChars ==
    {SubSeq(AsciiLow, i, i) : i \in 1..Len(AsciiLow)}
    \cup {SubSeq(AsciiHigh, i, i) : i \in 1..Len(AsciiHigh)}
\* the field elements polynomials are built from, the numbers of zeros
\* mul_by_x appends, and the hrp strings
FeSample == {0, 1, 2, 8, 31}
Shifts(checksum) == {0, 1, ChecksumLen(checksum)}
HrpSample == {"", "m", "M", "ms", "MS", "Ms", "bc", "BC", "tb1", "Z@"}
Checksums == {"Bech32", "Codex32"}

ArithInputs == {PureIn("arith", <<a, b, c>>) : a \in 0..31, b \in 0..31, c \in 0..31}
RttFeInputs == {PureIn("rtt_fe", n) : n \in 0..31}
TryFromInputs == {PureIn("try_from", ch) : ch \in PrintableChars}

\* a + b, a * b and the compound expressions of the field laws
ApplyArith ==
    /\ pure.fn = "arith" /\ ~pure.applied
    /\ LET a == pure.in[1]
           b == pure.in[2]
           c == pure.in[3]
       IN  pure' = Applied([add_ab |-> FeAdd(a, b), add_ba |-> FeAdd(b, a),
                            add_aa |-> FeAdd(a, a),
                            mul_a1 |-> FeMul(a, 1), mul_a0 |-> FeMul(a, 0),
                            mul_ab |-> FeMul(a, b), mul_ba |-> FeMul(b, a),
                            mul_ab_c |-> FeMul(FeMul(a, b), c),
                            mul_a_bc |-> FeMul(a, FeMul(b, c))])
    /\ UNCHANGED worksheetVars

\* Fe::try_from(char::from(Fe(n))), as in tests::rtt_fe
ApplyRttFe ==
    /\ pure.fn = "rtt_fe" /\ ~pure.applied
    /\ pure' = Applied([ch |-> CharFromFe(pure.in), fe |-> FeTryFrom(CharFromFe(pure.in))])
    /\ UNCHANGED worksheetVars

\* Fe::try_from(ch), and char::from of the element when it is Ok
ApplyTryFrom ==
    /\ pure.fn = "try_from" /\ ~pure.applied
    /\ LET r == FeTryFrom(pure.in)
       IN  pure' = Applied([fe |-> r,
                            ch |-> IF r.tag = "Ok" THEN CharFromFe(r.fe) ELSE None])
    /\ UNCHANGED worksheetVars

\* a polynomial built as tests::polymod builds one: Poly::from(fe) (or the
\* empty Poly::default()), mul_by_x_then_add for each further coefficient
RECURSIVE BuildFrom(_, _, _)
BuildFrom(p, coeffs, k) ==
    IF k > Len(coeffs) THEN p
    ELSE BuildFrom(mul_by_x_then_add(p, coeffs[k]), coeffs, k + 1)
BuildPoly(coeffs) == IF coeffs = <<>> THEN <<>> ELSE BuildFrom(<<coeffs[1]>>, coeffs, 2)

PolymodInputs ==
    UNION {{PureIn("polymod", [coeffs |-> cs, n |-> n, checksum |-> ck]) :
                cs \in {<<>>} \cup Seqs(FeSample, MaxCoeffs), n \in Shifts(ck)} :
           ck \in Checksums}
HrpInputs == {PureIn("hrp_residue", [s |-> s, checksum |-> ck]) :
                 s \in HrpSample, ck \in Checksums}

\* mul_by_x(n) on the built polynomial, then codex32_polymod / bech32_polymod
ApplyPolymod ==
    /\ pure.fn = "polymod" /\ ~pure.applied
    /\ LET p == mul_by_x(BuildPoly(pure.in.coeffs), pure.in.n)
       IN  pure' = Applied([poly |-> p, res |-> polymod(p, Modulus(pure.in.checksum))])
    /\ UNCHANGED worksheetVars

\* codex32_hrp_residue(s) / bech32_hrp_residue(s)
ApplyHrpResidue ==
    /\ pure.fn = "hrp_residue" /\ ~pure.applied
    /\ pure' = Applied(hrp_residue(pure.in.s, Modulus(pure.in.checksum)))
    /\ UNCHANGED worksheetVars

\* the ids handed to the two parsers: a prefix followed by up to MaxSegments
\* segments, each preceded by '_'
MaxSegments == 4
PrefixSample == {"inp", "inP", "in", ""}
SegmentSample == {"0", "10", "", "x", "+1"}
RECURSIVE JoinSegments(_)
JoinSegments(segs) ==
    IF segs = <<>> THEN "" ELSE "_" \o Head(segs) \o JoinSegments(Tail(segs))
IdOf(prefix, segs) == prefix \o JoinSegments(segs)
CellFromNameInputs ==
    {PureIn("cell_from_name", [prefix |-> pre, segs |-> segs]) :
        pre \in PrefixSample, segs \in {<<>>} \cup Seqs(SegmentSample, MaxSegments)}
\* the worksheet the parsed id is used on
ParserSheet == FreshCopy([hrp |-> "ms", create_mode |-> "Create", size |-> 11,
                          checksum |-> "Bech32"])

\* both cell_from_name functions on the id, and handle_input_change(id, "c")
ApplyCellFromName ==
    /\ pure.fn = "cell_from_name" /\ ~pure.applied
    /\ LET id == IdOf(pure.in.prefix, pure.in.segs)
       IN  pure' = Applied([id |-> id,
                            sheet |-> cell_from_name(id),
                            session |-> session_cell_from_name(id),
                            call |-> handle_input_change(ParserSheet, id, Utf8("c"))])
    /\ UNCHANGED worksheetVars

InitPure ==
    /\ InitWith(NoArgs, [tag |-> "None"])
    /\ script = <<>>
    /\ replay = NoReplay
    /\ pure \in ArithInputs \cup RttFeInputs \cup TryFromInputs \cup PolymodInputs
                \cup HrpInputs \cup CellFromNameInputs

NextPure ==
    \/ ApplyArith \/ ApplyRttFe \/ ApplyTryFrom \/ ApplyPolymod \/ ApplyHrpResidue
    \/ ApplyCellFromName

SpecPure == InitPure /\ [][NextPure]_vars

\* the function fn was applied
Did(fn) == pure.fn = fn /\ pure.applied

(***************************************************************************)
(* C16: for all field elements a, b, c in 0..31: a + b = b + a, a + a = 0, *)
(* a * 1 = a, a * 0 = 0, a * b = b * a, (a * b) * c = a * (b * c); every   *)
(* product lies in 0..31 and is the product of the two polynomials over    *)
(* GF(2) modulo x^5 + x^3 + 1.                                             *)
(***************************************************************************)
\* the product of two polynomials over GF(2) given by their bits
RECURSIVE ClMul(_, _)
ClMul(a, b) == IF a = 0 THEN 0
               ELSE BitXor(IF a % 2 = 1 THEN b ELSE 0, 2 * ClMul(a \div 2, b))
\* v modulo x^5 + x^3 + 1, clearing the bits d, d-1, .., 5
RECURSIVE ReduceFrom(_, _)
ReduceFrom(v, d) ==
    IF d < 5 THEN v
    ELSE ReduceFrom(IF (v \div (2 ^ d)) % 2 = 1 THEN BitXor(v, 41 * (2 ^ (d - 5))) ELSE v,
                    d - 1)
GfMulRef(a, b) == ReduceFrom(ClMul(a, b), 8)
C16_FieldLaws ==
    Did("arith") =>
        LET a == pure.in[1]
            b == pure.in[2]
            o == pure.out
        IN  /\ o.add_ab = o.add_ba
            /\ o.add_aa = 0
            /\ o.mul_a1 = a
            /\ o.mul_a0 = 0
            /\ o.mul_ab = o.mul_ba
            /\ o.mul_ab_c = o.mul_a_bc
            /\ {o.mul_ab, o.mul_ba, o.mul_ab_c, o.mul_a_bc, o.mul_a1, o.mul_a0} \subseteq 0..31
            /\ o.mul_ab = GfMulRef(a, b)
C16_ProductReduced ==
    /\ Did("arith")
    /\ pure.in = <<16, 16, 31>>
    /\ pure.out.mul_ab = 26
    /\ pure.out.mul_ab_c = pure.out.mul_a_bc

(***************************************************************************)
(* C17: the alphabet mapping is a bijection between 0..31 and the 32       *)
(* upper-case characters QPZRY9X8GF2TVDW0S3JN54KHCE6MUA7L: for every n,    *)
(* Fe::try_from(char::from(Fe(n))) = Fe(n), and for every upper-case       *)
(* alphabet character ch, char::from(Fe::try_from(ch)) = ch.               *)
(***************************************************************************)
\* the 32 characters, in the order of their elements
AlphabetChars == [n \in 0..31 |-> SubSeq("QPZRY9X8GF2TVDW0S3JN54KHCE6MUA7L", n + 1, n + 1)]
IsAlphabetChar(ch) == \E n \in 0..31 : AlphabetChars[n] = ch
C17_AlphabetBijection ==
    /\ Did("rtt_fe") =>
          /\ pure.out.ch = AlphabetChars[pure.in]
          /\ pure.out.fe = [tag |-> "Ok", fe |-> pure.in]
    /\ (Did("try_from") /\ IsAlphabetChar(pure.in)) =>
          /\ pure.out.fe.tag = "Ok"
          /\ pure.out.fe.fe \in 0..31
          /\ AlphabetChars[pure.out.fe.fe] = pure.in
          /\ pure.out.ch = pure.in
    /\ Cardinality({AlphabetChars[n] : n \in 0..31}) = 32
C17_LastCharRoundTrip ==
    /\ Did("try_from")
    /\ pure.in = "L"
    /\ pure.out.fe = [tag |-> "Ok", fe |-> 31]
    /\ pure.out.ch = "L"

(***************************************************************************)
(* C18: Fe::try_from is case-insensitive: it returns Ok exactly for the    *)
(* characters whose upper-case form is in the alphabet, and for those it   *)
(* returns the element of the upper-case form.                             *)
(***************************************************************************)
C18_CaseInsensitive ==
    Did("try_from") =>
        LET up == ToAsciiUppercase(pure.in)
        IN  /\ (pure.out.fe.tag = "Ok") <=> IsAlphabetChar(up)
            /\ IsAlphabetChar(up) =>
                  pure.out.fe = [tag |-> "Ok",
                                 fe |-> CHOOSE n \in 0..31 : AlphabetChars[n] = up]

(***************************************************************************)
(* C19: for every polynomial p, also the empty one and those shorter than  *)
(* L, and each generator G of length L, polymod returns exactly L          *)
(* coefficients, and they are the remainder of p on long division by the   *)
(* monic polynomial x^L + G(x); mul_by_x(n) appends n zeros and            *)
(* mul_by_x_then_add(fe) appends fe.  [Fe(2), Fe(8)] followed by 6 zeros   *)
(* reduces under the bech32 generator to Q863G3.                           *)
(***************************************************************************)
\* impl fmt::Display for Poly
PolyToString(p) == Concat([i \in 1..Len(p) |-> CharFromFe(p[i])])
Zeros(n) == [i \in 1..n |-> 0]
\* the monic polynomial x^L + G(x), highest coefficient first
Monic(G) == <<1>> \o G
\* schoolbook long division of a by the monic m, from position i on: the
\* leading coefficient a[i] joins the quotient and a[i] * m is subtracted
\* at positions i .. i + L
RECURSIVE LongDiv(_, _, _, _)
LongDiv(a, i, m, quot) ==
    IF i + Len(m) - 1 > Len(a)
    THEN [q |-> quot,
          r |-> IF Len(a) >= Len(m) - 1
                THEN SubSeq(a, Len(a) - Len(m) + 2, Len(a))
                ELSE Zeros(Len(m) - 1 - Len(a)) \o a]
    ELSE LongDiv([j \in 1..Len(a) |->
                     IF j >= i /\ j <= i + Len(m) - 1
                     THEN FeAdd(a[j], FeMul(a[i], m[j - i + 1]))
                     ELSE a[j]],
                 i + 1, m, Append(quot, a[i]))
\* the sum of the field elements of a sequence
RECURSIVE FeSum(_)
FeSum(seq) == IF seq = <<>> THEN 0 ELSE FeAdd(Head(seq), FeSum(Tail(seq)))
\* the k-th coefficient (highest first) of the product q * m
ProdCoeff(q, m, k) ==
    FeSum([i \in 1..Len(q) |->
              IF k - i + 1 >= 1 /\ k - i + 1 <= Len(m)
              THEN FeMul(q[i], m[k - i + 1]) ELSE 0])
\* p = q * m + r, coefficient by coefficient
IsDivision(p, q, m, r) ==
    LET L == Len(m) - 1
    IN  /\ Len(r) = L
        /\ Len(q) = IF Len(p) > L THEN Len(p) - L ELSE 0
        /\ IF Len(p) >= L
           THEN \A k \in 1..Len(p) :
                   p[k] = FeAdd(ProdCoeff(q, m, k), (Zeros(Len(p) - L) \o r)[k])
           ELSE r = Zeros(L - Len(p)) \o p
ZGInstance == [coeffs |-> <<2, 8>>, n |-> 6, checksum |-> "Bech32"]
C19_PolymodIsRemainder ==
    Did("polymod") =>
        LET G == Modulus(pure.in.checksum)
            p == pure.in.coeffs \o Zeros(pure.in.n)
            d == LongDiv(p, 1, Monic(G), <<>>)
        IN  /\ pure.out.poly = p
            /\ Len(pure.out.res) = Len(G)
            /\ Len(G) = ChecksumLen(pure.in.checksum)
            /\ pure.out.res = d.r
            /\ IsDivision(p, d.q, Monic(G), pure.out.res)
            /\ pure.in = ZGInstance =>
                  /\ PolyToString(pure.out.poly) = "ZGQQQQQQ"
                  /\ PolyToString(pure.out.res) = "Q863G3"
C19_ZGReduced ==
    /\ Did("polymod")
    /\ pure.in = ZGInstance
    /\ PolyToString(pure.out.res) = "Q863G3"
    /\ Len(LongDiv(pure.out.poly, 1, Monic(BECH32_POLYMOD), <<>>).q) = 2

(***************************************************************************)
(* C20: for every hrp s, hrp_residue(s, G) is polymod of                   *)
(* [1, lower(s[0]) >> 5, .., 0, lower(s[0]) & 31, ..] followed by L zeros, *)
(* so it is the same for s in any letter case; codex32_hrp_residue("ms")   *)
(* = codex32_hrp_residue("MS") = 33XW87RR3YLJG and                         *)
(* bech32_hrp_residue("ms") = 69EXR9.                                      *)
(***************************************************************************)
\* the byte of the lower-case form of a character: an upper-case letter is
\* the i-th letter and its lower-case form has the code 96 + i
UpperLetters == "ABCDEFGHIJKLMNOPQRSTUVWXYZ"
LowerByte(ch) ==
    IF \E i \in 1..Len(UpperLetters) : SubSeq(UpperLetters, i, i) = ch
    THEN 96 + (CHOOSE i \in 1..Len(UpperLetters) : SubSeq(UpperLetters, i, i) = ch)
    ELSE Ord(ch)
Expansion(s) ==
    <<1>> \o [i \in 1..Len(s) |-> LowerByte(SubSeq(s, i, i)) \div 32]
    \o <<0>> \o [i \in 1..Len(s) |-> LowerByte(SubSeq(s, i, i)) % 32]
C20_HrpResidue ==
    Did("hrp_residue") =>
        LET G == Modulus(pure.in.checksum)
            str == pure.in.s
        IN  /\ pure.out = polymod(Expansion(str) \o Zeros(Len(G)), G)
            /\ pure.out = hrp_residue(StrToAsciiUppercase(str), G)
            /\ Len(pure.out) = Len(G)
            /\ (str \in {"ms", "MS"} /\ pure.in.checksum = "Codex32") =>
                  PolyToString(pure.out) = "33XW87RR3YLJG"
            /\ (str = "ms" /\ pure.in.checksum = "Bech32") =>
                  PolyToString(pure.out) = "69EXR9"
C20_UpperCaseHrp ==
    /\ Did("hrp_residue")
    /\ pure.in = [s |-> "MS", checksum |-> "Codex32"]
    /\ PolyToString(pure.out) = "33XW87RR3YLJG"

(***************************************************************************)
(* C21: the cell-id parsers accept exactly the ids inp_<n>_<n> (worksheet) *)
(* and inp_<n>_<n>_<n> (session) with base-10 unsigned numbers and return  *)
(* the numbers in order; every other id gives UnknownCell, and             *)
(* handle_input_change then returns that error and leaves the worksheet    *)
(* unchanged.                                                              *)
(***************************************************************************)
\* the values of the segments that are numbers
SegmentValue == ("0" :> 0) @@ ("10" :> 10) @@ ("+1" :> 1)
\* a segment of decimal digits only; one that may also start with '+'
IsDecimal(seg) == seg \in {"0", "10"}
IsSignedDecimal(seg) == seg \in DOMAIN SegmentValue
\* what the parsers return when the id is prefix "inp" followed by exactly
\* count segments that all satisfy IsNum, and UnknownCell for the id otherwise
ParsersAccept(IsNum(_)) ==
    LET segs == pure.in.segs
        o == pure.out
        WellFormed(count) ==
            /\ pure.in.prefix = "inp"
            /\ Len(segs) = count
            /\ \A k \in 1..Len(segs) : IsNum(segs[k])
        IsUnknownCell(r) ==
            r.tag = "Err" /\ r.err.kind = "UnknownCell" /\ r.err.id = o.id
    IN  /\ IF WellFormed(2)
           THEN o.sheet = [tag |-> "Ok", row |-> SegmentValue[segs[1]],
                           cell |-> SegmentValue[segs[2]]]
           ELSE IsUnknownCell(o.sheet)
        /\ IF WellFormed(3)
           THEN o.session = [tag |-> "Ok",
                             ret |-> [k \in 1..3 |-> SegmentValue[segs[k]]]]
           ELSE IsUnknownCell(o.session)
        /\ o.sheet.tag = "Err" =>
              /\ o.call.done
              /\ o.call.result = o.sheet
              /\ o.call.ws = ParserSheet
C21_ParsersAcceptDecimal == Did("cell_from_name") => ParsersAccept(IsDecimal)
\* C21 with the numbers usize::from_str accepts: decimal digits that may be
\* preceded by one '+'
C21_ParsersAcceptFromStr == Did("cell_from_name") => ParsersAccept(IsSignedDecimal)
C21_ExtraSegmentRejected ==
    /\ Did("cell_from_name")
    /\ pure.out.id = "inp_10_0_+1"
    /\ pure.out.sheet = UnknownCell("inp_10_0_+1", "more than 2 numbers")
    /\ pure.out.session = [tag |-> "Ok", ret |-> <<10, 0, 1>>]
    /\ pure.out.call.ws = ParserSheet

(***************************************************************************)
(* C22: the id of every cell that is not a Symbol, parsed by               *)
(* cell_from_name, gives the cell's own row and cell index, in row 0, the  *)
(* HRP-residue row, the sum rows, the residue rows and the final row.      *)
(***************************************************************************)
\* the value cells whose id does not parse to their own position
MisaddressedCells(w) ==
    {p \in Positions(w) :
        /\ TyAt(w, p) # "Symbol"
        /\ cell_from_name(CellAt(w, p[1], p[2]).dom_id)
             # [tag |-> "Ok", row |-> p[1], cell |-> p[2]]}
C22_IdsAddressOwnCell == Built => MisaddressedCells(ws) = {}

(***************************************************************************)
(* C23: header_str returns exactly six characters, the first six share     *)
(* characters of row 0 with '_' for every one not yet entered; on the      *)
(* fresh bech32 worksheet of size 17 with hrp "ms" it is "______", and     *)
(* after the first five share cells of row 0 were set to 'c' it is         *)
(* "CCCCC_".                                                               *)
(***************************************************************************)
\* Worksheet::header_str
header_str(w) ==
    IF w.rows = <<>> THEN "______"
    ELSE LET cells == RowAt(w, 0).cells
             skip == Len(w.hrp)
             n == IF Len(cells) - skip >= 6 THEN 6
                  ELSE IF Len(cells) - skip >= 0 THEN Len(cells) - skip ELSE 0
             str == Concat([k \in 1..n |->
                               IF cells[skip + k].val = None THEN "_"
                               ELSE cells[skip + k].val])
         IN  str \o Concat([k \in 1..(6 - Len(str)) |-> "_"])
\* the first six share characters of row 0, '_' for an empty or missing one
ShareHeader(w) ==
    Concat([k \in 1..6 |->
               IF \E p \in ShareCells(w) : p[1] = 0 /\ p[2] = Len(w.hrp) + k
               THEN IF ValAt(w, <<0, Len(w.hrp) + k>>) = None THEN "_"
                    ELSE ValAt(w, <<0, Len(w.hrp) + k>>)
               ELSE "_"])
C23_HeaderStr ==
    (Built /\ pc = "idle") =>
        /\ Len(header_str(ws)) = 6
        /\ header_str(ws) = ShareHeader(ws)
        /\ (args.size = 17 /\ nEdits = 0) => header_str(ws) = "______"
        /\ (args.size = 17 /\ nEdits = 5) => header_str(ws) = "CCCCC_"

(***************************************************************************)
(* C24: an edit whose id parses to a row >= the number of rows returns     *)
(* InvalidRow{row, n_rows}; an edit whose row exists but whose cell index  *)
(* is >= the number of cells of that row returns InvalidCell{row, cell,    *)
(* n_cells} with n_cells the number of cells of the addressed row; no      *)
(* action is produced.                                                     *)
(***************************************************************************)
C24_InvalidIndex ==
    (Returned /\ cell_from_name(call.id).tag = "Ok") =>
        LET r == cell_from_name(call.id).row
            c == cell_from_name(call.id).cell
        IN  /\ r >= NumRows(ws) =>
                  result = [tag |-> "Err",
                            err |-> [kind |-> "InvalidRow", row |-> r,
                                     n_rows |-> NumRows(ws)]]
            /\ (r < NumRows(ws) /\ c >= NumCells(ws, r)) =>
                  result = [tag |-> "Err",
                            err |-> [kind |-> "InvalidCell", cell |-> c, row |-> r,
                                     n_cells |-> NumCells(ws, r)]]

(***************************************************************************)
(* C25: after accepted edits of share cells only (no clears), when         *)
(* handle_input_change has returned: for every three vertically aligned    *)
(* cells of rows r (even), r + 1 and r + 2 in one absolute column, in a    *)
(* data-head column rows r and r + 1 both set imply row r + 2 holds their  *)
(* field sum, and in a checksum-tail column rows r + 1 and r + 2 both set  *)
(* imply row r holds their field sum.                                      *)
(***************************************************************************)
\* the cell of row r in absolute column col
InColumn(w, r, col) == <<r, col - RowAt(w, r).start_idx>>
\* the columns in which rows r, r + 1 and r + 2 all have a value cell
AlignedColumns(w, r) ==
    {col \in 0..(w.size + 2) :
        \A k \in 0..2 : /\ InColumn(w, r + k, col) \in Positions(w)
                        /\ TyAt(w, InColumn(w, r + k, col)) # "Symbol"}
\* the cell at position s holds the field sum of the cells at p and q
HoldsSum(w, p, q, s) ==
    /\ ValAt(w, s) # None
    /\ FeOfChar[ValAt(w, s)] = FeAddTable[FeOfChar[ValAt(w, p)]][FeOfChar[ValAt(w, q)]]
\* only share cells were edited, and none was cleared
OnlyShareEdits == edited \subseteq ShareCells(ws) /\ cleared = {}
C25_ColumnSums ==
    (Returned /\ edited # {} /\ OnlyShareEdits) =>
        \A r \in {x \in 0..(NumRows(ws) - 3) : x % 2 = 0} :
          \A col \in AlignedColumns(ws, r) :
            LET a == InColumn(ws, r, col)
                b == InColumn(ws, r + 1, col)
                c == InColumn(ws, r + 2, col)
            IN  IF col < ws.size - ChecksumLen(ws.checksum)
                THEN (ValAt(ws, a) # None /\ ValAt(ws, b) # None) => HoldsSum(ws, a, b, c)
                ELSE (ValAt(ws, b) # None /\ ValAt(ws, c) # None) => HoldsSum(ws, b, c, a)

(***************************************************************************)
(* C26: after accepted edits of share cells only (no clears), when         *)
(* handle_input_change has returned: below every sum row whose first two   *)
(* sum cells fe0, fe1 are set, the L residue cells hold the residue of     *)
(* [fe0, fe1] followed by L zeros modulo the generator; below a sum row    *)
(* with fewer than two of them set the residue row is empty.               *)
(***************************************************************************)
\* the sum rows of the worksheet
SumRows(w) ==
    {r \in 0..(NumRows(w) - 1) :
        NumCells(w, r) > 2 /\ TyAt(w, <<r, 1>>) \in {"Sum", "SumChecksum"}}
\* the values of the L cells that follow the symbol of row r
RowVals(w, r) == [k \in 1..ChecksumLen(w.checksum) |-> ValAt(w, <<r, k>>)]
\* the residue the first two sum cells of row r call for
DiagonalResidue(w, r) ==
    polymod(<<FeOfChar[ValAt(w, <<r, 1>>)], FeOfChar[ValAt(w, <<r, 2>>)]>>
              \o Zeros(ChecksumLen(w.checksum)),
            Modulus(w.checksum))
C26_ResidueRows ==
    (Returned /\ edited # {} /\ OnlyShareEdits) =>
        \A r \in SumRows(ws) :
            IF ValAt(ws, <<r, 1>>) # None /\ ValAt(ws, <<r, 2>>) # None
            THEN RowVals(ws, r + 1) =
                   [k \in 1..ChecksumLen(ws.checksum) |->
                      CharFromFe(DiagonalResidue(ws, r)[k])]
            ELSE \A k \in 1..ChecksumLen(ws.checksum) : RowVals(ws, r + 1)[k] = None
\* a share-only run in which a residue row has been filled
C26_ResidueRowFilled ==
    /\ Returned /\ edited # {} /\ OnlyShareEdits
    /\ \E r \in SumRows(ws) :
          /\ ValAt(ws, <<r, 1>>) # None /\ ValAt(ws, <<r, 2>>) # None
          /\ \A k \in 1..ChecksumLen(ws.checksum) : RowVals(ws, r + 1)[k] # None

(***************************************************************************)
(* C27: the lower-diagonal branch of the propagation loop is taken only    *)
(* for cells of role Sum (the first two sum cells of a sum row): whatever  *)
(* the HRP length, no share, fixed-HRP, separator or GlobalResidue cell    *)
(* that update_sheet dequeues is handled as a lower-diagonal trigger.      *)
(***************************************************************************)
\* the next iteration of the loop dispatches the cell at the head of the
\* queue to the branch pos
Dispatches(pos) ==
    /\ Built /\ pc = "update_sheet" /\ queue # <<>>
    /\ InBounds(ws, Head(queue)[1], Head(queue)[2])
    /\ ValFe(ws, Head(queue)[1], Head(queue)[2]).tag = "Some"
    /\ cell_pos(Head(queue)[1], Head(queue)[2], ws) = pos
C27_LowerDiagonalOnlySum ==
    Dispatches("LowerDiagonal") =>
        /\ TyAt(ws, Head(queue)) = "Sum"
        /\ Head(queue)[1] \in SumRows(ws) /\ Head(queue)[2] \in {1, 2}

(***************************************************************************)
(* C28: the HRP-residue row is fixed: after any calls that address share   *)
(* cells only, whatever the HRP length, the L cells of row 1 hold the HRP  *)
(* residue written at construction; no propagation step writes to row 1.   *)
(***************************************************************************)
\* the values add_second_row gives the L cells of row 1
HrpResidueChars(w) ==
    [k \in 1..ChecksumLen(w.checksum) |->
        CharFromFe(hrp_residue(w.hrp, Modulus(w.checksum))[k])]
\* every accepted edit and every clear addressed a share cell
OnlyShareCalls == (edited \cup cleared) \subseteq ShareCells(ws)
C28_HrpResidueFixed ==
    (Built /\ OnlyShareCalls) => RowVals(ws, 1) = HrpResidueChars(ws)

(***************************************************************************)
(* C29: in create mode, whatever calls of handle_input_change are made,    *)
(* no cell of the final row is dequeued and dispatched by the propagation  *)
(* loop, and the final row keeps its fixed literal.                        *)
(***************************************************************************)
\* the next iteration of the loop dispatches a cell of the final row
DispatchesFinalRow ==
    /\ \E pos \in {"LowerDiagonal", "Sum", "SumChecksum", "Residue", "ResidueChecksum"} :
          Dispatches(pos)
    /\ Head(queue)[1] = NumRows(ws) - 1
C29_FinalRowUntouched ==
    (Built /\ args.create_mode = "Create") =>
        /\ ~DispatchesFinalRow
        /\ GlobalResidueVals(ws) = LiteralChars(ws.checksum)

(***************************************************************************)
(* C30: the no-op guard. Every Set action an iteration of the propagation  *)
(* loop emits belongs to a write that changed a cell (the value differs    *)
(* from the one the cell held before), and a write whose value equals the  *)
(* cell's current value changes nothing, emits nothing and enqueues        *)
(* nothing: actions, changed cells and enqueued cells go one for one.      *)
(***************************************************************************)
\* an iteration of the loop of update_sheet that did not panic
LoopIteration == pc = "update_sheet" /\ queue # <<>> /\ pc' = "update_sheet"
\* the cells whose value the step changed
ChangedCells == {p \in Positions(ws) : ValAt(ws', p) # ValAt(ws, p)}
C30_NoOpGuard ==
    [][LoopIteration =>
         /\ Len(ret') >= Len(ret) /\ SubSeq(ret', 1, Len(ret)) = ret
         /\ \A k \in (Len(ret) + 1)..Len(ret') :
               /\ ret'[k].ty = "Set"
               /\ \E p \in ChangedCells :
                     /\ CellAt(ws, p[1], p[2]).dom_id = ret'[k].id
                     /\ ValAt(ws', p) = ret'[k].value
                     /\ ValAt(ws, p) # ret'[k].value
         /\ Len(ret') < MaxRet => Len(ret') - Len(ret) = Cardinality(ChangedCells)
         /\ Len(queue') = Len(queue) - 1 + Cardinality(ChangedCells)
         /\ \A p \in ChangedCells : \E i \in 1..Len(queue') : queue'[i] = p
    ]_vars
\* a call that retyped the value a share cell already held has returned: the
\* sum two rows below was computed again, equalled the value in place, and
\* no action came back
C30_RetypedSameValue ==
    /\ Returned /\ ValidChar(call.val) /\ Addressed(ws, call.id)
    /\ result = [tag |-> "Ok", actions |-> <<>>]
    /\ cell_pos(Target(call.id)[1], Target(call.id)[2], ws) = "Sum"
    /\ LET t == Target(call.id)
           below == cell_below(ws, t[1], t[2])
       IN  /\ below.tag = "Some"
           /\ ValAt(ws, <<below.row, below.cell>>) # None
           /\ cell_below(ws, below.row, below.cell).tag = "Some"
           /\ HoldsSum(ws, t, <<below.row, below.cell>>,
                       <<cell_below(ws, below.row, below.cell).row,
                         cell_below(ws, below.row, below.cell).cell>>)

(***************************************************************************)
(* C31: queue discipline and action order. Every iteration dequeues from   *)
(* the front; a write of the Sum, SumChecksum or Residue branch puts its   *)
(* target at the front of the queue (it is processed next); the writes of  *)
(* the LowerDiagonal and ResidueChecksum branches go to the back; and a    *)
(* lower-diagonal trigger appends the Set actions of all changed residue   *)
(* cells consecutively, left to right, before any of them is processed.    *)
(***************************************************************************)
\* the cells of S in left-to-right order
RECURSIVE LeftToRight(_)
LeftToRight(S) ==
    IF S = {} THEN <<>>
    ELSE LET first == CHOOSE p \in S : \A q \in S : p[2] <= q[2]
         IN  <<first>> \o LeftToRight(S \ {first})
\* the branch the iteration dispatches the head of the queue to
HeadPos == cell_pos(Head(queue)[1], Head(queue)[2], ws)
C31_QueueDiscipline ==
    [][LoopIteration =>
         /\ ChangedCells = {} => queue' = Tail(queue)
         /\ (ChangedCells # {} /\ HeadPos \in {"Sum", "SumChecksum", "Residue"}) =>
               /\ Cardinality(ChangedCells) = 1
               /\ queue' = LeftToRight(ChangedCells) \o Tail(queue)
         /\ (ChangedCells # {} /\ HeadPos \in {"LowerDiagonal", "ResidueChecksum"}) =>
               queue' = Tail(queue) \o LeftToRight(ChangedCells)
         /\ (HeadPos = "LowerDiagonal" /\ Len(ret') < MaxRet) =>
               /\ \A p \in ChangedCells : p[1] = Head(queue)[1] + 1
               /\ ret' = ret \o [k \in 1..Cardinality(ChangedCells) |->
                                   Action("Set",
                                          CellAt(ws, LeftToRight(ChangedCells)[k][1],
                                                 LeftToRight(ChangedCells)[k][2]).dom_id,
                                          ValAt(ws', LeftToRight(ChangedCells)[k]))]
    ]_vars
\* a lower-diagonal trigger has fired while other cells were waiting, and a
\* residue cell it wrote has then put its own target ahead of the rest: the
\* queue holds that target followed by the remaining residue cells in order
C31_FrontBeforeResidues ==
    /\ Built /\ pc = "update_sheet" /\ Len(queue) = ChecksumLen(ws.checksum)
    /\ Head(queue)[1] % 2 = 0 /\ Head(queue)[1] > 0
    /\ \A k \in 2..Len(queue) : queue[k] = <<Head(queue)[1] - 1, k>>
    /\ Len(ret) > ChecksumLen(ws.checksum)
    /\ \A k \in 1..ChecksumLen(ws.checksum) :
          ret[Len(ret) - 1 - ChecksumLen(ws.checksum) + k] =
            Action("Set", CellAt(ws, Head(queue)[1] - 1, k).dom_id,
                   ValAt(ws, <<Head(queue)[1] - 1, k>>))

(***************************************************************************)
(* C32: the action list describes the state change. When a call returns,   *)
(* the cells whose value differs from before the call are exactly the      *)
(* edited cell plus the cells whose id a Set action carries; every Set     *)
(* action carries the id of a cell; and for every id the value of its last *)
(* Set action is the value the cell holds at the return.                   *)
(***************************************************************************)
\* the cells whose value differs from the one they held when the call began
Differing == {p \in Positions(ws) : ValAt(ws, p) # ValAt(prev, p)}
\* the indices of the Set actions that carry the id of the cell at p
SetsOf(actions, p) ==
    {k \in 1..Len(actions) :
        actions[k].ty = "Set" /\ actions[k].id = CellAt(ws, p[1], p[2]).dom_id}
\* the cells named by the Set actions
NamedBySet(actions) == {p \in Positions(ws) : SetsOf(actions, p) # {}}
\* the largest element of a non-empty set of indices
Last(S) == CHOOSE k \in S : \A j \in S : j <= k
InTail(w, p) == Column(w, p) >= w.size - ChecksumLen(w.checksum)
C33_ChecksumSideAgrees ==
    Built =>
        \A p \in Positions(ws) :
            TyAt(ws, p) \in {"ShareData", "ShareDataChecksum", "Sum", "SumChecksum"} =>
                /\ TyAt(ws, p) \in {"ShareDataChecksum", "SumChecksum"} <=> InTail(ws, p)
                /\ cell_pos(p[1], p[2], ws) \in {"LowerDiagonal", "Sum", "SumChecksum"}
                /\ cell_pos(p[1], p[2], ws) # "LowerDiagonal" =>
                      (cell_pos(p[1], p[2], ws) = "SumChecksum" <=> InTail(ws, p))
                /\ (p[1] \in SumRows(ws) /\ cell_pos(p[1], p[2], ws) = "LowerDiagonal") =>
                      (~InTail(ws, p) /\ TyAt(ws, p) = "Sum")
\* a built worksheet with a sum row that has lower-diagonal cells, a data-head
\* sum cell after them, and checksum-side sum and share cells
C33_MixedSumRow ==
    /\ Built
    /\ \E r \in SumRows(ws) :
          /\ cell_pos(r, 1, ws) = "LowerDiagonal" /\ TyAt(ws, <<r, 1>>) = "Sum"
          /\ \E c \in 3..(NumCells(ws, r) - 1) :
                TyAt(ws, <<r, c>>) = "Sum" /\ cell_pos(r, c, ws) = "Sum"
          /\ \E c \in 3..(NumCells(ws, r) - 1) :
                TyAt(ws, <<r, c>>) = "SumChecksum" /\ cell_pos(r, c, ws) = "SumChecksum"
          /\ \E c \in 3..(NumCells(ws, r) - 1) :
                TyAt(ws, <<r, c>>) = "ShareDataChecksum" /\ cell_pos(r, c, ws) = "SumChecksum"

(***************************************************************************)
(* Entering one assignment in every order: a fresh create-mode worksheet,  *)
(* a set of share cells with a character for each, entered one edit per    *)
(* cell in any order; then a fresh copy of the worksheet, and the same      *)
(* edits in any order again.                                               *)
(***************************************************************************)
\* number of cells of an assignment
MaxOrder == 3
OrderSheets ==
    {[hrp |-> "", checksum |-> "Bech32", size |-> 9],
     [hrp |-> "m", checksum |-> "Bech32", size |-> 10],
     [hrp |-> "ms", checksum |-> "Bech32", size |-> 11],
     [hrp |-> "ms", checksum |-> "Bech32", size |-> 13],
     [hrp |-> "ms", checksum |-> "Bech32", size |-> 17],
     [hrp |-> "ms", checksum |-> "Codex32", size |-> 18]}
\* the share cells assignments are drawn from: the first four of row 0 and
\* the two of the first sum row
OrderCells(w) ==
    {p \in ShareCells(w) : (p[1] = 0 /\ Column(w, p) <= Len(w.hrp) + 4) \/ p[1] = 2}
\* the edits of an assignment: one per cell, 'c' and 'Q' alternating
OrderCallsOf(S, flip) ==
    [k \in 1..Cardinality(S) |->
        <<FmtId(LeftToRight(S)[k][1], LeftToRight(S)[k][2]),
          Utf8(IF (k % 2 = 0) = flip THEN "c" ELSE "Q")>>]
\* the sequence s without its i-th element
RemoveAt(s, i) == SubSeq(s, 1, i - 1) \o SubSeq(s, i + 1, Len(s))

InitOrder ==
    \E sh \in OrderSheets :
      \E o \in Worksheet_new(sh.hrp, "Create", sh.size, sh.checksum) :
        \E S \in SUBSET OrderCells(o.ws), flip \in BOOLEAN :
          /\ Cardinality(S) >= 2 /\ Cardinality(S) <= MaxOrder
          /\ InitWith([hrp |-> sh.hrp, create_mode |-> "Create", size |-> sh.size,
                       checksum |-> sh.checksum], o)
          /\ script = OrderCallsOf(S, flip)
          /\ replay = [mode |-> "order1", calls |-> OrderCallsOf(S, flip),
                       ws1 |-> NoWorksheet, log1 |-> <<>>]
          /\ pure = NoPure

\* any edit of the assignment that was not made yet
OrderEdit ==
    /\ replay.mode \in {"order1", "order2"}
    /\ \E i \in 1..Len(replay.calls) :
          /\ DoCall(replay.calls[i][1], replay.calls[i][2])
          /\ replay' = [replay EXCEPT !.calls = RemoveAt(@, i)]
    /\ UNCHANGED <<script, pure>>

\* every edit was made: keep the worksheet and start again on a fresh copy
OrderRestart ==
    /\ replay.mode = "order1"
    /\ replay.calls = <<>>
    /\ pc = "idle"
    /\ replay' = [replay EXCEPT !.mode = "order2", !.calls = script, !.ws1 = ws]
    /\ ws' = FreshCopy(args)
    /\ UNCHANGED <<args, built, pc, queue, ret, call, result, nEdits, edited, cleared, prev,
                   script, pure>>

NextOrder == OrderEdit \/ OrderRestart \/ UpdateSheetStep \/ UpdateSheetReturn

SpecOrder == InitOrder /\ [][NextOrder]_vars

\* both passes are over
BothOrdersDone == replay.mode = "order2" /\ replay.calls = <<>> /\ pc = "idle"
\* the cells of the assignment
AssignedCells == {Target(script[k][1]) : k \in 1..Len(script)}

SharedIds(w) ==
    {pq \in Positions(w) \X Positions(w) :
        pq[1] # pq[2] /\ CellAt(w, pq[1][1], pq[1][2]).dom_id
                           = CellAt(w, pq[2][1], pq[2][2]).dom_id}
C35_IdsDistinct == Built => SharedIds(ws) = {}

====
